---- MODULE Spec2Model ----
(***************************************************************************)
(* A model of the retrieval-fusion and code-relationship engine of CodeVI  *)
(* (backend/app/graph_service.py, hybrid_search_pipeline.py,               *)
(* search_service.py).                                                     *)
(*                                                                         *)
(* Representation.  A Python str that the code inspects character by       *)
(* character (names, endpoints, paths, handlers) is a sequence of          *)
(* one-character strings; a Python dict is a function whose DOMAIN is the  *)
(* set of keys that are present, so dict.get(k, d) is Get(d, k, dflt);     *)
(* a Python list is a sequence.  Entity types and languages, which the     *)
(* code only compares and lower-cases, are atomic words.                   *)
(***************************************************************************)
EXTENDS Integers, Sequences, FiniteSets, TLC

VARIABLES
    pc,          \* which operation has run in this behaviour
    index,       \* SearchService.semantic_index_data
    base,        \* the base_item handed to find_related
    nodes,       \* the node list handed to _identify_flow_chains
    edges,       \* the edge list handed to _identify_flow_chains
    outcome,     \* what the operation returned (or that it raised)
    ranker,             \* the instance attributes of the HybridRanker
    lexical_results,    \* combine_results: (metadata, score) pairs from BM25
    semantic_results,   \* combine_results: (metadata, score) pairs from embeddings
    context_results,    \* combine_results: (metadata, score) pairs from the graph
    request,            \* the remaining arguments of the call (intent, top_k, ...)
    adapter,            \* the instance attributes of the HybridPipelineAdapter
    doc_metadata        \* the metadata dicts the engines of a pipeline hold

rankvars == <<ranker, lexical_results, semantic_results, context_results, request>>

vars == <<pc, index, base, nodes, edges, outcome, ranker, lexical_results,
          semantic_results, context_results, request, adapter, doc_metadata>>

(***************************************************************************)
(* Python values                                                           *)
(***************************************************************************)

\* Python's None (dict.get of an absent key without default, or a null field)
None == <<"None">>

\* dict.get(k, dflt)
Get(d, k, dflt) == IF k \in DOMAIN d THEN d[k] ELSE dflt

\* x in list
InList(x, list) == \E k \in 1..Len(list) : list[k] = x

\* a in b, for two str
IsSub(a, b) == \E i \in 0..(Len(b) - Len(a)) : SubSeq(b, i + 1, i + Len(a)) = a

\* s.startswith(p)
StartsWith(s, p) == Len(p) <= Len(s) /\ SubSeq(s, 1, Len(p)) = p

\* the lower-case letter of every upper-case ASCII letter
LowerCase ==
    [A |-> "a", B |-> "b", C |-> "c", D |-> "d", E |-> "e", F |-> "f", G |-> "g", H |-> "h", I |-> "i",
     J |-> "j", K |-> "k", L |-> "l", M |-> "m", N |-> "n", O |-> "o", P |-> "p", Q |-> "q", R |-> "r",
     S |-> "s", T |-> "t", U |-> "u", V |-> "v", W |-> "w", X |-> "x", Y |-> "y", Z |-> "z"]

\* one character of str.lower()
LowerChar(c) == IF c \in DOMAIN LowerCase THEN LowerCase[c] ELSE c

\* str.lower()
Lower(s) == [i \in 1..Len(s) |-> LowerChar(s[i])]

\* str.lower() of an atomic word (a language or an entity type)
LowerWord(w) ==
    CASE w = "Python" -> "python" [] w = "HTML" -> "html"
      [] w = "JavaScript" -> "javascript" [] w = "Route" -> "route"
      [] OTHER -> w

RECURSIVE LStrip(_, _)
LStrip(s, c) == IF s # <<>> /\ Head(s) = c THEN LStrip(Tail(s), c) ELSE s

RECURSIVE RStrip(_, _)
RStrip(s, c) ==
    IF s # <<>> /\ s[Len(s)] = c THEN RStrip(SubSeq(s, 1, Len(s) - 1), c) ELSE s

\* str.strip(c)
Strip(s, c) == RStrip(LStrip(s, c), c)

\* s[n:]
Drop(s, n) == SubSeq(s, n + 1, Len(s))

\* list[:n]
Take(s, n) == SubSeq(s, 1, IF n < Len(s) THEN n ELSE Len(s))

RECURSIVE Flatten(_)
Flatten(ss) == IF ss = <<>> THEN <<>> ELSE Head(ss) \o Flatten(Tail(ss))

(***************************************************************************)
(* GraphService._normalize_endpoint, GraphService._detect_context          *)
(***************************************************************************)

API_SLASH == <<"a", "p", "i", "/">>
SLASH_API_SLASH == <<"/", "a", "p", "i", "/">>

_normalize_endpoint(endpoint) ==
    IF endpoint = None \/ endpoint = <<>> THEN <<>>
    ELSE LET normalized == Strip(endpoint, "/")
         IN  Lower(IF StartsWith(normalized, API_SLASH) THEN Drop(normalized, 4)
                   ELSE IF StartsWith(normalized, SLASH_API_SLASH) THEN Drop(normalized, 5)
                   ELSE normalized)

FrontendIndicators ==
    { <<"f","r","o","n","t","e","n","d">>, <<"c","l","i","e","n","t">>,
      <<"s","r","c">>, <<"p","u","b","l","i","c">>, <<"s","t","a","t","i","c">> }

BackendIndicators ==
    { <<"b","a","c","k","e","n","d">>, <<"s","e","r","v","e","r">>,
      <<"a","p","i">>, <<"r","o","u","t","e","s">>, <<"a","p","p">> }

_detect_context(item) ==
    LET file_path == Lower(Get(item, "file_path", <<>>))
        language  == LowerWord(Get(item, "language", ""))
        item_type == LowerWord(Get(item, "type", ""))
    IN  IF \E ind \in FrontendIndicators : IsSub(ind, file_path) THEN "frontend"
        ELSE IF language \in {"javascript", "typescript", "html", "css"} THEN "frontend"
        ELSE IF \E ind \in BackendIndicators : IsSub(ind, file_path) THEN "backend"
        ELSE IF language = "python" THEN "backend"
        ELSE IF item_type \in {"route", "api_call"}
             THEN IF IsSub(<<"a","p","i">>, file_path) \/ IsSub(<<"r","o","u","t","e">>, file_path)
                  THEN "backend" ELSE "frontend"
        ELSE "unknown"

(***************************************************************************)
(* GraphService.find_related                                               *)
(***************************************************************************)

\* a == b or a in b or b in a (the endpoint match of lines 143-145, 181-183)
EndpointsMatch(a, b) == a = b \/ IsSub(a, b) \/ IsSub(b, a)

\* base_name in relations or any(base_name in rel for rel in relations)
NameInList(name, list) ==
    InList(name, list) \/ \E k \in 1..Len(list) : IsSub(name, list[k])

\* {**item, "relation_type": ..., ...}: the new keys shadow the item's own
Tagged(item, tags) == tags @@ item

\* the item is the base itself (line 90)
IsSelf(base_item, item) ==
    /\ Get(item, "file_path", None) = Get(base_item, "file_path", <<>>)
    /\ Get(item, "name", None) = Get(base_item, "name", <<>>)

\* evaluating the predicates for this item raises (a null list is not iterable)
Raises(base_item, item) ==
    \/ Get(item, "relations", <<>>) = None
    \/ Get(base_item, "relations", <<>>) = None
    \/ Get(item, "imports", <<>>) = None

\* lines 95-104: the base function is called by this item
CallsFunction(base_item, item) ==
    IF NameInList(Get(base_item, "name", <<>>), Get(item, "relations", <<>>))
    THEN << Tagged(item, [relation_type |-> "calls_function",
                          relation_strength |-> "strong",
                          direction |-> "outgoing"]) >>
    ELSE <<>>

\* lines 106-114: the base function calls this item
CalledByFunction(base_item, item) ==
    IF NameInList(Get(item, "name", <<>>), Get(base_item, "relations", <<>>))
    THEN << Tagged(item, [relation_type |-> "called_by_function",
                          relation_strength |-> "strong",
                          direction |-> "incoming"]) >>
    ELSE <<>>

\* lines 126-132: the first api_call of the base with a non-empty endpoint
BaseApiCall(base_item) ==
    LET calls == Get(base_item, "api_calls", <<>>)
        hits  == {k \in 1..Len(calls) : Get(calls[k], "endpoint", <<>>) # <<>>}
    IN  IF hits = {} THEN [endpoint |-> <<>>, endpoint_normalized |-> <<>>]
        ELSE LET c == calls[CHOOSE k \in hits : \A j \in hits : k <= j]
             IN  [endpoint |-> c.endpoint,
                  endpoint_normalized |->
                      Get(c, "endpoint_normalized", _normalize_endpoint(c.endpoint))]

\* lines 121-166: the base is a frontend API call, the item a backend handler
HandlesEndpoint(base_item, item) ==
    LET bc == BaseApiCall(base_item)
        ben == bc.endpoint_normalized
        routes == Get(item, "routes", <<>>)
        item_name_normalized == _normalize_endpoint(Get(item, "name", <<>>))
    IN  IF /\ Get(base_item, "type", "") = "api_call"
           /\ _detect_context(base_item) = "frontend"
           /\ bc.endpoint # <<>> /\ ben # <<>>
           /\ _detect_context(item) = "backend"
        THEN (IF \E k \in 1..Len(routes) :
                    EndpointsMatch(ben, _normalize_endpoint(Get(routes[k], "path", <<>>)))
              THEN << Tagged(item, [relation_type |-> "handles_endpoint",
                                    relation_strength |-> "strong",
                                    direction |-> "backend",
                                    endpoint_match |-> bc.endpoint,
                                    context |-> "backend"]) >>
              ELSE <<>>)
             \o
             (IF ben = item_name_normalized \/ IsSub(ben, item_name_normalized)
              THEN << Tagged(item, [relation_type |-> "endpoint_handler",
                                    relation_strength |-> "medium",
                                    direction |-> "backend",
                                    context |-> "backend"]) >>
              ELSE <<>>)
        ELSE <<>>

\* lines 168-192: the base is a backend route, the item a frontend caller
CallsRoute(base_item, item) ==
    LET normalized_route == _normalize_endpoint(Get(base_item, "name", <<>>))
        api_calls == Get(item, "api_calls", <<>>)
        en(c) == Get(c, "endpoint_normalized",
                     _normalize_endpoint(Get(c, "endpoint", <<>>)))
        hits == {k \in 1..Len(api_calls) : EndpointsMatch(normalized_route, en(api_calls[k]))}
    IN  IF /\ Get(base_item, "type", "") = "route"
           /\ _detect_context(base_item) = "backend"
           /\ _detect_context(item) = "frontend"
           /\ hits # {}
        THEN << Tagged(item, [relation_type |-> "calls_route",
                              relation_strength |-> "strong",
                              direction |-> "frontend",
                              endpoint_match |->
                                  Get(api_calls[CHOOSE k \in hits : \A j \in hits : k <= j],
                                      "endpoint", <<>>),
                              context |-> "frontend"]) >>
        ELSE <<>>

\* lines 194-218: the base is an HTML element, the item listens to it.
\* " ".join(classes).split() is the list of the non-empty class tokens.
HandlesEvent(base_item, item) ==
    LET attributes == Get(base_item, "attributes", <<>>)
        elem_id == Get(attributes, "id", <<>>)
        classes == SelectSeq(Get(attributes, "class", <<>>), LAMBDA c : c # <<>>)
        listeners == Get(item, "event_listeners", <<>>)
        handler(k) == Lower(Get(listeners[k], "handler", <<>>))
        byId(k) == elem_id # <<>> /\ IsSub(Lower(elem_id), handler(k))
        byClass(k) == \E j \in 1..Len(classes) : IsSub(Lower(classes[j]), handler(k))
        hits == {k \in 1..Len(listeners) : byId(k) \/ byClass(k)}
    IN  IF /\ Get(base_item, "type", "") \in {"button", "element", "input"}
           /\ Get(base_item, "language", "") = "html"
           /\ hits # {}
        THEN LET first == CHOOSE k \in hits : \A j \in hits : k <= j
             IN  << Tagged(item, [relation_type |-> "handles_event",
                                  relation_strength |->
                                      IF byId(first) THEN "strong" ELSE "medium",
                                  direction |-> "js_handler"]) >>
        ELSE <<>>

\* lines 220-228: the item imports the base
Imports(base_item, item) ==
    IF NameInList(Get(base_item, "name", <<>>), Get(item, "imports", <<>>))
    THEN << Tagged(item, [relation_type |-> "imports",
                          relation_strength |-> "weak",
                          direction |-> "depends_on"]) >>
    ELSE <<>>

\* one pass of the loop body of lines 88-228 for one item
RelationsOf(base_item, item) ==
    IF IsSelf(base_item, item) THEN <<>>
    ELSE CallsFunction(base_item, item) \o CalledByFunction(base_item, item)
         \o HandlesEndpoint(base_item, item) \o CallsRoute(base_item, item)
         \o HandlesEvent(base_item, item) \o Imports(base_item, item)

\* the list `related` after the loop of lines 88-228, in discovery order
Discovered(base_item, all_items) ==
    Flatten([k \in 1..Len(all_items) |-> RelationsOf(base_item, all_items[k])])

\* the key of the duplicate filter (line 234)
RelationKey(r) == <<Get(r, "file_path", None), Get(r, "name", None),
                    Get(r, "relation_type", None)>>

\* lines 230-237: keep the first record of every key
RECURSIVE UniqueRelated(_, _)
UniqueRelated(related, seen) ==
    IF related = <<>> THEN <<>>
    ELSE IF RelationKey(Head(related)) \in seen
         THEN UniqueRelated(Tail(related), seen)
         ELSE <<Head(related)>>
              \o UniqueRelated(Tail(related), seen \cup {RelationKey(Head(related))})

\* strength_order.get(x.get("relation_strength", "weak"), 0)  (lines 240-241)
StrengthRank(r) ==
    LET s == Get(r, "relation_strength", "weak")
    IN  CASE s = "strong" -> 3 [] s = "medium" -> 2 [] s = "weak" -> 1 [] OTHER -> 0

\* the sort without reverse=True: weakest first
SortByStrengthAscending(list) ==
    SelectSeq(list, LAMBDA r : StrengthRank(r) = 0)
    \o SelectSeq(list, LAMBDA r : StrengthRank(r) = 1)
    \o SelectSeq(list, LAMBDA r : StrengthRank(r) = 2)
    \o SelectSeq(list, LAMBDA r : StrengthRank(r) = 3)

\* list.sort(key=rank, reverse=True): stable, highest rank first (line 241)
SortByStrength(list) ==
    SelectSeq(list, LAMBDA r : StrengthRank(r) = 3)
    \o SelectSeq(list, LAMBDA r : StrengthRank(r) = 2)
    \o SelectSeq(list, LAMBDA r : StrengthRank(r) = 1)
    \o SelectSeq(list, LAMBDA r : StrengthRank(r) = 0)

\* the slice of line 243
RelatedLimit == 15

\* the scan reaches an item whose evaluation raises: nothing in find_related
\* catches it, so the call itself raises
FindRelatedRaises(base_item, all_items) ==
    \E k \in 1..Len(all_items) :
        ~IsSelf(base_item, all_items[k]) /\ Raises(base_item, all_items[k])

\* find_related(base_item) over the index all_items, when nothing raises
find_related(base_item, all_items) ==
    Take(SortByStrength(UniqueRelated(Discovered(base_item, all_items), {})),
         RelatedLimit)

(***************************************************************************)
(* Index entities, in the shape CodeParser emits them                      *)
(***************************************************************************)

A_JS   == <<"a", ".", "j", "s">>
B_PY   == <<"b", ".", "p", "y">>
C_PY   == <<"c", ".", "p", "y">>
D_PY   == <<"d", ".", "p", "y">>
E_PY   == <<"e", ".", "p", "y">>
N_PY   == <<"n", ".", "p", "y">>
Q_PY   == <<"q", ".", "p", "y">>
S_NAME == <<"s">>
API_S  == <<"/", "a", "p", "i", "/", "s">>

\* a frontend fetch('/api/s'), as parse_js_code emits it (code_parser.py 484-495)
ApiCallEntity ==
    [type |-> "api_call", name |-> S_NAME, language |-> "javascript",
     file_path |-> A_JS, start_line |-> 1,
     api_calls |-> << [method |-> "GET", endpoint |-> API_S] >>,
     relations |-> << S_NAME >>]

\* a decorated Python view function (code_parser.py 144-160): it calls s,
\* serves /s, is named s and imports s
HandlerEntity(path) ==
    [type |-> "function", name |-> S_NAME, language |-> "python",
     file_path |-> path, start_line |-> 1,
     routes |-> << [type |-> "route", path |-> <<"/", "s">>, method |-> "GET"] >>,
     api_calls |-> <<>>,
     relations |-> << S_NAME >>,
     imports |-> << S_NAME >>]

\* <button id="s" onclick="go()"> (code_parser.py 668-685)
ButtonEntity ==
    [type |-> "button", name |-> S_NAME, language |-> "html",
     file_path |-> <<"h", ".", "h", "t", "m", "l">>, start_line |-> 1,
     attributes |-> [id |-> S_NAME, classes |-> <<>>, onclick |-> <<"g", "o", "(", ")">>],
     event_listeners |-> << [event |-> "click", handler |-> <<"g", "o", "(", ")">>] >>]

\* function go() { x.addEventListener('click', onS); fetch('/api/s') }
\* (code_parser.py 412-425)
ListenerEntity ==
    [type |-> "function", name |-> <<"g", "o">>, language |-> "javascript",
     file_path |-> A_JS, start_line |-> 5,
     api_calls |-> << [type |-> "api_call", method |-> "GET", endpoint |-> API_S,
                       endpoint_normalized |-> S_NAME, context |-> "frontend"] >>,
     event_listeners |-> << [type |-> "event_listener", event |-> "click",
                             handler |-> <<"o", "n", "S">>] >>,
     relations |-> << <<"f", "e", "t", "c", "h">> >>]

\* @app.route('/api/s') found by the route regex (code_parser.py 240-251)
RouteEntity ==
    [type |-> "route", name |-> API_S, language |-> "python",
     file_path |-> <<"r", ".", "p", "y">>, start_line |-> 3,
     routes |-> << [path |-> API_S, method |-> "GET"] >>]

\* an entity without a name key (the data model keys such entities by
\* file_path :: start_line)
NamelessEntity ==
    [type |-> "file", language |-> "python", file_path |-> N_PY,
     start_line |-> 1, relations |-> << S_NAME >>]

\* an entity whose relations field is null
NullRelationsEntity ==
    [type |-> "function", name |-> <<"q">>, language |-> "python",
     file_path |-> Q_PY, start_line |-> 1, relations |-> None]

EntityPool ==
    { HandlerEntity(B_PY), HandlerEntity(C_PY), HandlerEntity(D_PY),
      HandlerEntity(E_PY), NamelessEntity, NullRelationsEntity,
      ButtonEntity, ListenerEntity }

\* the largest index of the find_related specification
MaxIndex == 4

SeqsUpTo(S, n) == UNION { [1..k -> S] : k \in 0..n }

(***************************************************************************)
(* Specification SpecRelated: find_related over every small index          *)
(***************************************************************************)

NoOutcome == [op |-> "none"]

\* HybridPipelineAdapter(search_service) as __init__ leaves it
\* (hybrid_pipeline_adapter.py 24-33); built = FALSE is self.pipeline = None
HybridPipelineAdapter == [pipeline |-> [built |-> FALSE], _initialized |-> FALSE]

\* no ranker has been constructed and no ranking has been requested
NoRanking ==
    /\ ranker = None
    /\ lexical_results = <<>>
    /\ semantic_results = <<>>
    /\ context_results = <<>>
    /\ request = None

InitRelated ==
    /\ pc = "idle"
    /\ index \in SeqsUpTo(EntityPool, MaxIndex)
    /\ base = None
    /\ nodes = <<>>
    /\ edges = <<>>
    /\ outcome = NoOutcome
    /\ adapter = HybridPipelineAdapter
    /\ doc_metadata = <<>>
    /\ NoRanking

\* graph_service.find_related(base_item), with base_item an index entity
\* (routes.py 513-514) or a search result (graph_service.py 275)
FindRelated ==
    /\ pc = "idle"
    /\ \E b \in {ApiCallEntity, RouteEntity} \cup {index[k] : k \in 1..Len(index)} :
          /\ base' = b
          /\ outcome' =
                IF FindRelatedRaises(b, index)
                THEN [op |-> "find_related", raised |-> TRUE, related |-> <<>>]
                ELSE [op |-> "find_related", raised |-> FALSE,
                      related |-> find_related(b, index)]
    /\ pc' = "done"
    /\ UNCHANGED <<index, doc_metadata, adapter, nodes, edges, rankvars>>

NextRelated == FindRelated

SpecRelated == InitRelated /\ [][NextRelated]_vars

Returned == pc = "done" /\ outcome.op = "find_related" /\ ~outcome.raised

TagKeys == {"relation_type", "relation_strength", "direction", "endpoint_match", "context"}

\* the index entity a related record was copied from
Untagged(r) == [k \in (DOMAIN r) \ TagKeys |-> r[k]]

\* C4: find_related(base) never contains the base entity itself, also when
\* the base has a missing or empty name.
C4_NoSelfRelation ==
    Returned => \A k \in 1..Len(outcome.related) : Untagged(outcome.related[k]) # base

\* the position at which record r was first discovered in the scan d
FirstDiscovered(d, r) ==
    CHOOSE i \in 1..Len(d) : d[i] = r /\ \A j \in 1..(i - 1) : d[j] # r

WithoutRaising(b, all_items) == SelectSeq(all_items, LAMBDA it : ~Raises(b, it))

\* C6: when evaluating one candidate raises, that candidate is skipped and
\* the call still returns the relations of all other candidates.
C6_BadCandidateSkipped ==
    (pc = "done" /\ outcome.op = "find_related" /\ FindRelatedRaises(base, index)
        /\ Get(base, "relations", <<>>) # None)
    => /\ ~outcome.raised
       /\ outcome.related = find_related(base, WithoutRaising(base, index))

(***************************************************************************)
(* GraphService._identify_flow_chains                                      *)
(***************************************************************************)

\* the slice of line 419
ChainLimit == 10

\* chain.pop()
Pop(chain) == SubSeq(chain, 1, Len(chain) - 1)

\* the edge filter without its type test
EdgesFromAnyType(edge_list, node_id, types) ==
    SelectSeq(edge_list, LAMBDA e : Get(e, "source", None) = node_id)

\* [e for e in edges if e.get("source") == node_id and e.get("type") in types]
EdgesFrom(edge_list, node_id, types) ==
    SelectSeq(edge_list, LAMBDA e : Get(e, "source", None) = node_id
                                    /\ Get(e, "type", None) \in types)

\* the loop over backend_edges without its chain.pop()
RECURSIVE WalkBackendNoPop(_, _)
WalkBackendNoPop(backend_edges, st) ==
    IF backend_edges = <<>> THEN st
    ELSE LET appended == Append(st.chain, Head(backend_edges).target)
         IN  WalkBackendNoPop(Tail(backend_edges),
                              [chain |-> appended,
                               chains |-> Append(st.chains, appended)])

\* lines 411-415: the loop over backend_edges; st holds the locals chain, chains
RECURSIVE WalkBackend(_, _)
WalkBackend(backend_edges, st) ==
    IF backend_edges = <<>> THEN st
    ELSE LET appended == Append(st.chain, Head(backend_edges).target)
         IN  WalkBackend(Tail(backend_edges),
                         [chain |-> Pop(appended),
                          chains |-> Append(st.chains, appended)])

\* lines 405-416: the loop over api_edges
RECURSIVE WalkApi(_, _, _)
WalkApi(api_edges, edge_list, st) ==
    IF api_edges = <<>> THEN st
    ELSE LET api_node_id == Head(api_edges).target
             inner == WalkBackend(EdgesFrom(edge_list, api_node_id, {"handles_endpoint"}),
                                  [st EXCEPT !.chain = Append(@, api_node_id)])
         IN  WalkApi(Tail(api_edges), edge_list, [inner EXCEPT !.chain = Pop(@)])

\* lines 399-417: the loop over js_edges
RECURSIVE WalkJs(_, _, _)
WalkJs(js_edges, edge_list, st) ==
    IF js_edges = <<>> THEN st
    ELSE LET js_node_id == Head(js_edges).target
             inner == WalkApi(EdgesFrom(edge_list, js_node_id,
                                        {"calls_endpoint", "calls_route"}),
                              edge_list,
                              [st EXCEPT !.chain = Append(@, js_node_id)])
         IN  WalkJs(Tail(js_edges), edge_list, [inner EXCEPT !.chain = Pop(@)])

\* the node types that seed a chain (line 392)
SeedTypes == {"button", "element", "input"}

\* lines 394-417: the loop over html_nodes; chains is what was collected so far
RECURSIVE WalkSeeds(_, _, _)
WalkSeeds(html_nodes, edge_list, chains) ==
    IF html_nodes = <<>> THEN chains
    ELSE LET seed == Head(html_nodes).id
             st == WalkJs(EdgesFrom(edge_list, seed, {"handles_event"}), edge_list,
                          [chain |-> <<seed>>, chains |-> chains])
         IN  WalkSeeds(Tail(html_nodes), edge_list, st.chains)

_identify_flow_chains(node_list, edge_list) ==
    Take(WalkSeeds(SelectSeq(node_list, LAMBDA n : Get(n, "type", None) \in SeedTypes),
                   edge_list, <<>>),
         ChainLimit)

(***************************************************************************)
(* Specification SpecChains: _identify_flow_chains over small graphs       *)
(***************************************************************************)

NodePool ==
    { [id |-> "b", type |-> "button"], [id |-> "b", type |-> "function"] }

Edge(s, t, ty) == [source |-> s, target |-> t, type |-> ty]

\* a button b handled by h, h calling a (and, as a plain function call, a),
\* a served by r and by b
EdgePool ==
    { Edge("b", "h", "handles_event"),
      Edge("h", "a", "calls_route"),
      Edge("h", "a", "calls_function"),
      Edge("a", "r", "handles_endpoint"),
      Edge("a", "b", "handles_endpoint") }

\* the longest node list and edge list of the flow-chain specification
MaxNodes == 3
MaxEdges == 5

InitChains ==
    /\ pc = "idle"
    /\ index = <<>>
    /\ base = None
    /\ nodes \in SeqsUpTo(NodePool, MaxNodes)
    /\ edges \in SeqsUpTo(EdgePool, MaxEdges)
    /\ outcome = NoOutcome
    /\ adapter = HybridPipelineAdapter
    /\ doc_metadata = <<>>
    /\ NoRanking

IdentifyFlowChains ==
    /\ pc = "idle"
    /\ outcome' = [op |-> "flow_chains", chains |-> _identify_flow_chains(nodes, edges)]
    /\ pc' = "done"
    /\ UNCHANGED <<index, doc_metadata, adapter, base, nodes, edges,
                   rankvars>>

NextChains == IdentifyFlowChains

SpecChains == InitChains /\ [][NextChains]_vars

ChainsReturned == pc = "done" /\ outcome.op = "flow_chains"

HasEdge(s, t, types) ==
    \E k \in 1..Len(edges) :
        edges[k].source = s /\ edges[k].target = t /\ edges[k].type \in types

\* C2: every returned chain has exactly 4 entries, starts at a node of type
\* button, element or input, and follows a handles_event edge, then a
\* calls_endpoint or calls_route edge, then a handles_endpoint edge.
C2_ChainsAreValid ==
    ChainsReturned =>
      \A n \in 1..Len(outcome.chains) :
        LET c == outcome.chains[n]
        IN  /\ Len(c) = 4
            /\ \E k \in 1..Len(nodes) :
                  nodes[k].id = c[1] /\ nodes[k].type \in {"button", "element", "input"}
            /\ HasEdge(c[1], c[2], {"handles_event"})
            /\ HasEdge(c[2], c[3], {"calls_endpoint", "calls_route"})
            /\ HasEdge(c[3], c[4], {"handles_endpoint"})

\* chains were returned from a graph that also holds a node that is no seed
\* and an edge of a type no level follows
C2_Witness ==
    /\ ChainsReturned
    /\ Len(outcome.chains) >= 2
    /\ \E k \in 1..Len(nodes) : nodes[k].type = "function"
    /\ \E k \in 1..Len(edges) : edges[k].type = "calls_function"

\* the positions of the edges of the given types that leave node_id
EdgePositions(node_id, types) ==
    {k \in 1..Len(edges) : edges[k].source = node_id /\ edges[k].type \in types}

\* the seed -> handler -> api -> backend paths of the graph: a seed position
\* in the node list and one edge position per level
FlowPaths ==
    UNION { UNION { UNION { { <<s, i, j, k>> :
                  k \in EdgePositions(edges[j].target, {"handles_endpoint"}) } :
              j \in EdgePositions(edges[i].target, {"calls_endpoint", "calls_route"}) } :
          i \in EdgePositions(nodes[s].id, {"handles_event"}) } :
      s \in {n \in 1..Len(nodes) : nodes[n].type \in {"button", "element", "input"}} }

\* depth-first discovery order: by seed, then by the edge taken at each level
Earlier(p, q) ==
    \E i \in 1..4 : p[i] < q[i] /\ \A j \in 1..(i - 1) : p[j] = q[j]

PathChain(p) ==
    <<nodes[p[1]].id, edges[p[2]].target, edges[p[3]].target, edges[p[4]].target>>

\* C3: the result is the first 10 of all seed->handler->api->backend paths in
\* depth-first discovery order, and all of them when there are fewer than 10.
C3_ExhaustiveAndCapped ==
    ChainsReturned =>
      LET paths == FlowPaths
          r == outcome.chains
      IN  /\ Len(r) = IF Cardinality(paths) < 10 THEN Cardinality(paths) ELSE 10
          /\ \A p \in paths :
                LET n == Cardinality({q \in paths : Earlier(q, p)}) + 1
                IN  n <= 10 => r[n] = PathChain(p)

\* more than 10 paths exist, through more than one edge at a level
C3_Witness ==
    /\ ChainsReturned
    /\ Cardinality(FlowPaths) > 10
    /\ Len(outcome.chains) = 10
    /\ \E p, q \in FlowPaths : PathChain(p) # PathChain(q)

(***************************************************************************)
(* HybridRanker (hybrid_search_pipeline.py 348-465).  A float score is an  *)
(* integer number of millionths; a weight is an integer number of tenths.  *)
(***************************************************************************)

\* 1.0
ONE == 1000000

Digits == <<"0", "1", "2", "3", "4", "5", "6", "7", "8", "9">>

\* str(n) of a non-negative int, as the f-string formats it
RECURSIVE Str(_)
Str(n) == IF n < 10 THEN <<Digits[n + 1]>>
          ELSE Str(n \div 10) \o <<Digits[(n % 10) + 1]>>

Min(S) == CHOOSE x \in S : \A y \in S : x <= y
Max(S) == CHOOSE x \in S : \A y \in S : x >= y

\* f"{file_path}::{name}::{start_line}"
_get_doc_key(metadata) ==
    LET file_path  == Get(metadata, "file_path", <<>>)
        name       == Get(metadata, "name", Get(metadata, "full_name", <<>>))
        start_line == Get(metadata, "start_line", 0)
    IN  file_path \o <<":", ":">> \o name \o <<":", ":">> \o Str(start_line)

\* the dict doc_key -> (metadata, normalized score); a later pair with the
\* same key overwrites an earlier one
_normalize_scores(results) ==
    IF results = <<>> THEN <<>>
    ELSE LET scores    == [i \in 1..Len(results) |-> results[i][2]]
             min_score == Min({scores[i] : i \in 1..Len(results)})
             max_score == Max({scores[i] : i \in 1..Len(results)})
             normalized_scores ==
                 [i \in 1..Len(results) |->
                     IF max_score = min_score THEN ONE
                     ELSE ((scores[i] - min_score) * ONE) \div (max_score - min_score)]
             key(i)  == _get_doc_key(results[i][1])
             last(k) == CHOOSE i \in 1..Len(results) :
                            key(i) = k /\ \A j \in (i + 1)..Len(results) : key(j) # k
         IN  [k \in {key(i) : i \in 1..Len(results)} |->
                 <<results[last(k)][1], normalized_scores[last(k)]>>]

\* what the class HybridRanker defines (lines 354, 365, 428, 459)
RankerClass == {"__init__", "combine_results", "_normalize_scores", "_get_doc_key"}

\* HybridRanker(alpha, beta): lines 362-363
HybridRanker(alpha, beta) == [alpha |-> alpha, beta |-> beta]

\* attribute lookup on the instance, then on its class
HasAttr(self, attr) == attr \in DOMAIN self \/ attr \in RankerClass

\* combine_results: the possible outcomes of one call.  Line 387 looks up
\* self.get_adaptive_weights, which neither the instance nor the class has.
\* Past it, lines 401-405 multiply a float weight by what dict.get returns
\* for a key of the union, the (metadata, score) tuple, which raises
\* TypeError; only an empty union reaches the sort and returns [].
combine_results(self, lexical, semantic, context, intent, top) ==
    LET lex_scores_dict == _normalize_scores(lexical)
        sem_scores_dict == _normalize_scores(semantic)
        ctx_scores_dict == _normalize_scores(context)
        all_docs == DOMAIN lex_scores_dict \cup DOMAIN sem_scores_dict
                        \cup DOMAIN ctx_scores_dict
    IN  IF ~HasAttr(self, "get_adaptive_weights")
        THEN { [op |-> "combine_results", raised |-> TRUE,
                error |-> "AttributeError", results |-> <<>>] }
        ELSE IF all_docs # {}
        THEN { [op |-> "combine_results", raised |-> TRUE,
                error |-> "TypeError", results |-> <<>>] }
        ELSE { [op |-> "combine_results", raised |-> FALSE, error |-> "",
                results |-> <<>>] }

(***************************************************************************)
(* SearchService.hybrid_search and search_semantic (search_service.py).    *)
(* The BM25 scores and the cosine similarities of a query are inputs: one  *)
(* raw score per index position.                                           *)
(***************************************************************************)

\* the characters of \s that a query can hold
Whitespace == {" ", "\t"}

WordChars ==
    {"a", "b", "c", "d", "e", "f", "g", "h", "i", "j", "k", "l", "m", "n", "o",
     "p", "q", "r", "s", "t", "u", "v", "w", "x", "y", "z", "_",
     "A", "B", "C", "D", "E", "F", "G", "H", "I", "J", "K", "L", "M", "N", "O",
     "P", "Q", "R", "S", "T", "U", "V", "W", "X", "Y", "Z",
     "0", "1", "2", "3", "4", "5", "6", "7", "8", "9"}

\* the maximal runs of the characters of s that are in chars (inside) or not
\* in chars (~inside): re.findall(r'\b\w+\b', s) with the word characters,
\* str.split() with the whitespace
RECURSIVE Runs(_, _, _, _)
Runs(s, chars, inside, run) ==
    IF s = <<>> THEN (IF run = <<>> THEN <<>> ELSE <<run>>)
    ELSE IF (Head(s) \in chars) = inside
         THEN Runs(Tail(s), chars, inside, Append(run, Head(s)))
    ELSE (IF run = <<>> THEN <<>> ELSE <<run>>) \o Runs(Tail(s), chars, inside, <<>>)

\* query.split()
Split(query) == Runs(query, Whitespace, FALSE, <<>>)

\* lines 217-221
_tokenize_for_bm25(text) == Runs(Lower(text), WordChars, TRUE, <<>>)

\* lines 297-313: (semantic_weight, lexical_weight) in tenths
_calculate_adaptive_weights(query) ==
    LET query_words == Len(Split(query))
    IN  IF query_words <= 2 THEN <<4, 6>>
        ELSE IF query_words <= 4 THEN <<6, 4>>
        ELSE <<7, 3>>

\* round(x, 3): millionths to thousandths
Round3(x) == (x + 500) \div 1000

\* item.get("code", "")[:200]
PreviewLen == 200

\* the fields both searches copy from an index item (lines 423-436, 490-501)
FormattedItem(item) ==
    [file_path       |-> Get(item, "file_path", <<>>),
     name            |-> Get(item, "name", <<>>),
     full_name       |-> Get(item, "full_name", Get(item, "name", <<>>)),
     type            |-> Get(item, "type", "code"),
     language        |-> Get(item, "language", ""),
     context         |-> Get(item, "context", Get(item, "docstring", <<>>)),
     start_line      |-> Get(item, "start_line", None),
     end_line        |-> Get(item, "end_line", None),
     code            |-> Take(Get(item, "code", <<>>), PreviewLen),
     api_calls       |-> Get(item, "api_calls", <<>>),
     event_listeners |-> Get(item, "event_listeners", <<>>),
     routes          |-> Get(item, "routes", <<>>)]

\* lines 392-407: min-max normalization of a numpy vector; a vector without
\* range becomes np.zeros_like
NormalizeVector(scores) ==
    LET lo    == Min({scores[i] : i \in 1..Len(scores)})
        hi    == Max({scores[i] : i \in 1..Len(scores)})
        range == hi - lo
    IN  [i \in 1..Len(scores) |->
            IF range > 0 THEN ((scores[i] - lo) * ONE) \div range ELSE 0]

\* the orders in which a sort by descending key can list the positions 1..n;
\* keep_ties says whether equal keys keep their input order (Python's stable
\* sorted) or may come in any order (np.argsort's default kind is not stable)
DescendingOrders(keys, keep_ties) ==
    LET n == Len(keys)
    IN  { r \in [1..n -> 1..n] :
            /\ \A i, j \in 1..n : i # j => r[i] # r[j]
            /\ \A i \in 1..(n - 1) :
                  \/ keys[r[i]] > keys[r[i + 1]]
                  \/ keys[r[i]] = keys[r[i + 1]] /\ (keep_ties => r[i] < r[i + 1]) }

\* the index positions that carry an embedding
Embedded(items) == SelectSeq([i \in 1..Len(items) |-> i],
                             LAMBDA i : "embedding" \in DOMAIN items[i])

\* search_semantic, lines 441-504: the possible outcomes.  env says which of
\* the services the call finds available.
search_semantic(items, env, similarity, max_results) ==
    IF ~env.indexed \/ items = <<>> \/ ~env.model \/ ~env.encodes
    THEN { [op |-> "search_semantic", raised |-> FALSE, results |-> <<>>] }
    ELSE LET emb  == Embedded(items)
             sims == [k \in 1..Len(emb) |-> similarity[emb[k]]]
         IN  { [op |-> "search_semantic", raised |-> FALSE,
                results |-> [k \in 1..Len(Take(r, max_results)) |->
                               [score |-> Round3(sims[r[k]] * ONE)]
                                 @@ FormattedItem(items[emb[r[k]]])]] :
               r \in DescendingOrders(sims, TRUE) }

\* hybrid_search, lines 315-439: the possible outcomes.  weights is None or
\* the explicit (semantic_weight, lexical_weight) in tenths; without weights
\* and without adaptive, line 352 adds None to None.
hybrid_search(items, env, query, bm25_scores, similarity, max_results, weights, adaptive) ==
    LET given  == IF weights # None THEN weights
                  ELSE IF adaptive THEN _calculate_adaptive_weights(query)
                  ELSE <<0, 0>>
        total_weight    == given[1] + given[2]
        semantic_weight == IF total_weight > 0 THEN (given[1] * 1000) \div total_weight
                           ELSE given[1] * 100
        lexical_weight  == IF total_weight > 0 THEN (given[2] * 1000) \div total_weight
                           ELSE given[2] * 100
        empty  == [op |-> "hybrid_search", raised |-> FALSE, results |-> <<>>,
                   bm25_norm |-> <<>>, sem_norm |-> <<>>,
                   weights |-> <<semantic_weight, lexical_weight>>]
    IN  IF ~env.indexed \/ items = <<>> THEN {empty}
        ELSE IF ~env.bm25 THEN search_semantic(items, env, similarity, max_results)
        ELSE IF ~env.model THEN {empty}
        ELSE IF weights = None /\ ~adaptive
             THEN { [op |-> "hybrid_search", raised |-> TRUE, results |-> <<>>] }
        ELSE IF _tokenize_for_bm25(query) = <<>>
             THEN search_semantic(items, env, similarity, max_results)
        ELSE IF ~env.encodes THEN {empty}
        ELSE LET semantic_scores ==
                     [i \in 1..Len(items) |->
                         IF "embedding" \in DOMAIN items[i] THEN similarity[i] ELSE 0]
                 bm25_norm == NormalizeVector(bm25_scores)
                 sem_norm  == NormalizeVector(semantic_scores)
                 combined_scores ==
                     [i \in 1..Len(items) |->
                         (semantic_weight * sem_norm[i] + lexical_weight * bm25_norm[i])
                            \div 1000]
             IN  { [op |-> "hybrid_search", raised |-> FALSE,
                    results |-> [k \in 1..Len(Take(r, max_results)) |->
                                   [score          |-> Round3(combined_scores[r[k]]),
                                    semantic_score |-> Round3(sem_norm[r[k]]),
                                    bm25_score     |-> Round3(bm25_norm[r[k]]),
                                    line_number    |-> Get(items[r[k]], "start_line", None),
                                    content        |-> Take(Get(items[r[k]], "code", <<>>),
                                                            PreviewLen)]
                                     @@ FormattedItem(items[r[k]])],
                    bm25_norm |-> bm25_norm, sem_norm |-> sem_norm,
                    weights |-> <<semantic_weight, lexical_weight>>] :
                   r \in DescendingOrders(combined_scores, FALSE) }

\* the weights of a call that passes none: the defaults of the signature of
\* SearchService.search (line 266), semantic_weight=0.6 and lexical_weight=0.4
Default == <<"default">>

\* SearchService.search, lines 266-295: the possible outcomes.  weights is
\* Default, None or an explicit pair; engine is None before the legacy index
\* is built or loaded (not initialized), else engine.hits is what
\* engine.search(query, max_results) returns.
\* env.indexed stands for is_semantic_indexed after the load that
\* hybrid_search attempts.
search(items, env, engine, query, bm25_scores, similarity, max_results, use_hybrid, weights, adaptive) ==
    LET legacy ==
            IF ~engine.initialized
            THEN { [op |-> "search", raised |-> TRUE, results |-> <<>>] }
            ELSE { [op |-> "search", raised |-> FALSE, results |-> engine.hits] }
        semantic ==
            IF env.indexed \/ items # <<>>
            THEN UNION { IF s.results # <<>> THEN { [s EXCEPT !.op = "search"] } ELSE legacy :
                         s \in search_semantic(items, env, similarity, max_results) }
            ELSE legacy
    IN  IF use_hybrid
        THEN UNION { IF h.raised \/ h.results # <<>> THEN { [h EXCEPT !.op = "search"] }
                     ELSE semantic :
                     h \in hybrid_search(items, env, query, bm25_scores, similarity,
                                         max_results,
                                         IF weights = Default THEN <<6, 4>> ELSE weights,
                                         adaptive) }
        ELSE semantic

(***************************************************************************)
(* Specification SpecRank: the ranker and the two searches over every      *)
(* small index and every small score vector                                *)
(***************************************************************************)

\* the largest raw score of a result or of a score vector
MaxScore == 2

\* the largest index of the ranking specification
MaxDocs == 2

\* the longest lexical or semantic result list, and the longest context list
MaxResults == 2
MaxContext == 1

\* scan_semantic stores the embedding in the item (search_service.py 175-177)
Embed(item) == [embedding |-> "vector"] @@ item

RankIndexPool == { Embed(HandlerEntity(B_PY)), Embed(ButtonEntity), NamelessEntity }

\* the metadata the pipeline keeps of an index item
\* (hybrid_pipeline_adapter.py 117-129)
Metadata(item) ==
    [file_path       |-> Get(item, "file_path", <<>>),
     name            |-> Get(item, "name", Get(item, "full_name", <<>>)),
     type            |-> Get(item, "type", "code"),
     language        |-> Get(item, "language", ""),
     start_line      |-> Get(item, "start_line", 1),
     end_line        |-> Get(item, "end_line", 1),
     code            |-> Get(item, "code", <<>>),
     docstring       |-> Get(item, "docstring", <<>>),
     api_calls       |-> Get(item, "api_calls", <<>>),
     event_listeners |-> Get(item, "event_listeners", <<>>),
     routes          |-> Get(item, "routes", <<>>)]

\* the (metadata, score) lists of at most n pairs an engine can return
ResultLists(items, n) ==
    SeqsUpTo({ <<Metadata(items[i]), sc>> : i \in 1..Len(items), sc \in 1..MaxScore }, n)

\* which services a search finds available (search_service.py 333-349, 366-373)
Envs ==
    { [indexed |-> TRUE,  bm25 |-> TRUE,  model |-> TRUE,  encodes |-> TRUE],
      [indexed |-> FALSE, bm25 |-> TRUE,  model |-> TRUE,  encodes |-> TRUE],
      [indexed |-> TRUE,  bm25 |-> FALSE, model |-> TRUE,  encodes |-> TRUE],
      [indexed |-> TRUE,  bm25 |-> TRUE,  model |-> FALSE, encodes |-> TRUE],
      [indexed |-> TRUE,  bm25 |-> TRUE,  model |-> TRUE,  encodes |-> FALSE] }

\* "s", "s b c", "s b c d e" and "-": one word, three words, five words, no
\* token
Queries ==
    { <<"s">>, <<"s", " ", "b", " ", "c">>,
      <<"s", " ", "b", " ", "c", " ", "d", " ", "e">>, <<"-">> }

Intents == {"general", "api"}

InitRank ==
    /\ pc = "idle"
    /\ index \in SeqsUpTo(RankIndexPool, MaxDocs)
    /\ base = None
    /\ nodes = <<>>
    /\ edges = <<>>
    /\ outcome = NoOutcome
    /\ adapter = HybridPipelineAdapter
    /\ doc_metadata = <<>>
    /\ ranker = HybridRanker(7, 3)
    /\ lexical_results = <<>>
    /\ semantic_results = <<>>
    /\ context_results = <<>>
    /\ request = None

\* ranker.combine_results(lexical_results, semantic_results, context_results,
\* intent=intent, top_k=top_k)
CombineResults ==
    /\ pc = "idle"
    /\ \E lexical \in ResultLists(index, MaxResults),
          semantic \in ResultLists(index, MaxResults),
          context \in ResultLists(index, MaxContext),
          intent \in Intents, top \in 1..MaxResults :
          /\ lexical_results' = lexical
          /\ semantic_results' = semantic
          /\ context_results' = context
          /\ request' = [intent |-> intent, top_k |-> top]
          /\ outcome' \in combine_results(ranker, lexical, semantic, context, intent, top)
    /\ pc' = "done"
    /\ UNCHANGED <<index, doc_metadata, adapter, base, nodes, edges, ranker>>

\* ranker._normalize_scores(results)
NormalizeScores ==
    /\ pc = "idle"
    /\ \E results \in ResultLists(index, MaxResults) :
          /\ request' = [results |-> results]
          /\ outcome' = [op |-> "_normalize_scores", raised |-> FALSE,
                         scores_dict |-> _normalize_scores(results)]
    /\ pc' = "done"
    /\ UNCHANGED <<index, doc_metadata, adapter, base, nodes, edges, ranker,
                   lexical_results, semantic_results, context_results>>

\* the arguments and the raw scores of one search
SearchRequests ==
    [env : Envs, query : Queries,
     bm25_scores : [1..Len(index) -> 0..MaxScore],
     similarity : [1..Len(index) -> 0..MaxScore],
     max_results : {1, 5}, weights : {None, <<6, 4>>}, adaptive : BOOLEAN]

\* search_service.hybrid_search(query, max_results, semantic_weight,
\* lexical_weight, adaptive)
HybridSearch ==
    /\ pc = "idle"
    /\ \E req \in SearchRequests :
          /\ request' = req
          /\ outcome' \in hybrid_search(index, req.env, req.query, req.bm25_scores,
                                        req.similarity, req.max_results,
                                        req.weights, req.adaptive)
    /\ pc' = "done"
    /\ UNCHANGED <<index, doc_metadata, adapter, base, nodes, edges, ranker,
                   lexical_results, semantic_results, context_results>>

\* search_service.search_semantic(query, max_results)
SearchSemantic ==
    /\ pc = "idle"
    /\ \E req \in SearchRequests :
          /\ req.weights = None /\ req.adaptive /\ req.env.bm25
          /\ \A i \in 1..Len(index) : req.bm25_scores[i] = 0
          /\ request' = req
          /\ outcome' \in search_semantic(index, req.env, req.similarity, req.max_results)
    /\ pc' = "done"
    /\ UNCHANGED <<index, doc_metadata, adapter, base, nodes, edges, ranker,
                   lexical_results, semantic_results, context_results>>

\* what the legacy engine holds for a query: no engine, no hit, one hit
\* (search_engine.py 107-147)
Engines ==
    { [initialized |-> FALSE, hits |-> <<>>],
      [initialized |-> TRUE, hits |-> <<>>],
      [initialized |-> TRUE,
       hits |-> << [file_path |-> B_PY, line_number |-> 1, score |-> ONE] >>] }

\* search_service.search(query, max_results, use_hybrid, semantic_weight,
\* lexical_weight, adaptive), the weights given or left to the defaults
Search ==
    /\ pc = "idle"
    /\ \E req \in SearchRequests, engine \in Engines, use_hybrid \in BOOLEAN,
          defaults \in BOOLEAN :
          /\ req.max_results = 5
          /\ defaults => req.weights = None
          /\ request' = [use_hybrid |-> use_hybrid, engine |-> engine,
                         weights |-> IF defaults THEN Default ELSE req.weights]
                        @@ req
          /\ outcome' \in search(index, req.env, engine, req.query, req.bm25_scores,
                                 req.similarity, req.max_results, use_hybrid,
                                 IF defaults THEN Default ELSE req.weights,
                                 req.adaptive)
    /\ pc' = "done"
    /\ UNCHANGED <<index, doc_metadata, adapter, base, nodes, edges, ranker,
                   lexical_results, semantic_results, context_results>>

NextRank ==
    CombineResults \/ NormalizeScores \/ HybridSearch \/ SearchSemantic \/ Search

SpecRank == InitRank /\ [][NextRank]_vars

\* the characters of file paths and entity names, in code point order
CodePoints ==
    <<
       " ", "-", ".", "/", "0", "1", "2", "3", "4", "5", "6", "7",
       "8", "9", ":", "A", "B", "C", "D", "E", "F", "G", "H", "I",
       "J", "K", "L", "M", "N", "O", "P", "Q", "R", "S", "T", "U",
       "V", "W", "X", "Y", "Z", "_", "a", "b", "c", "d", "e", "f",
       "g", "h", "i", "j", "k", "l", "m", "n", "o", "p", "q", "r",
       "s", "t", "u", "v", "w", "x", "y", "z" >>

\* the rank of the code point of c among these characters
Ord(c) == CHOOSE i \in 1..Len(CodePoints) : CodePoints[i] = c

\* a < b for two Python str
RECURSIVE StrLess(_, _)
StrLess(a, b) ==
    IF b = <<>> THEN FALSE
    ELSE IF a = <<>> THEN TRUE
    ELSE IF Head(a) = Head(b) THEN StrLess(Tail(a), Tail(b))
    ELSE Ord(Head(a)) < Ord(Head(b))

Combined == pc = "done" /\ outcome.op = "combine_results"

\* the normalized score of a result in one of the three argument lists
Component(results, r) ==
    LET d == _normalize_scores(results)
    IN  IF _get_doc_key(r) \in DOMAIN d THEN d[_get_doc_key(r)][2] ELSE 0

\* the entity keys of the three argument lists
UnionKeys ==
    DOMAIN _normalize_scores(lexical_results)
        \cup DOMAIN _normalize_scores(semantic_results)
        \cup DOMAIN _normalize_scores(context_results)

\* C7: every call of combine_results returns entities whose score is
\* alpha*semantic + beta*lexical + gamma*context of their normalized
\* component scores, for weights (in tenths) resolved for the call; with the
\* weights (1, 0, 0) the results come in the order of their semantic scores.
C7_WeightedScore ==
    Combined =>
        /\ ~outcome.raised
        /\ \E w \in (0..10) \X (0..10) \X (0..10) :
              /\ \A k \in 1..Len(outcome.results) :
                    LET r == outcome.results[k]
                    IN  /\ r.semantic_score = Component(semantic_results, r)
                        /\ r.lexical_score = Component(lexical_results, r)
                        /\ r.context_score = Component(context_results, r)
                        /\ r.score = w[1] * r.semantic_score + w[2] * r.lexical_score
                                        + w[3] * r.context_score
              /\ w = <<10, 0, 0>> =>
                    \A k \in 1..(Len(outcome.results) - 1) :
                        outcome.results[k].semantic_score
                            >= outcome.results[k + 1].semantic_score

\* C8: the result of combine_results is sorted by combined score descending
\* and, among entities of equal combined score, by entity key ascending.
C8_DeterministicOrder ==
    Combined =>
        /\ ~outcome.raised
        /\ \A k \in 1..(Len(outcome.results) - 1) :
              LET r == outcome.results[k]
                  n == outcome.results[k + 1]
              IN  \/ r.score > n.score
                  \/ r.score = n.score /\ StrLess(_get_doc_key(r), _get_doc_key(n))

\* C9: combine_results ranks the union of the entity keys of its three lists:
\* the result has exactly min(top_k, size of the union) entries, each an
\* entity of the union with 0.0 for the signals it has no entry in.
C9_UnionRanked ==
    Combined =>
        /\ ~outcome.raised
        /\ Len(outcome.results) = Min({request.top_k, Cardinality(UnionKeys)})
        /\ \A k \in 1..Len(outcome.results) :
              LET r == outcome.results[k]
              IN  /\ _get_doc_key(r) \in UnionKeys
                  /\ r.lexical_score = Component(lexical_results, r)
                  /\ r.semantic_score = Component(semantic_results, r)
                  /\ r.context_score = Component(context_results, r)

\* v is the min-max image of position i of the raw vector: in [0, 1], 1.0 at
\* a maximum and 0.0 at a minimum of a non-constant raw, 1.0 for a constant raw
MinMaxOnto(raw, i, v) ==
    LET lo == Min({raw[j] : j \in 1..Len(raw)})
        hi == Max({raw[j] : j \in 1..Len(raw)})
    IN  /\ 0 <= v /\ v <= ONE
        /\ lo = hi => v = ONE
        /\ lo # hi /\ raw[i] = hi => v = ONE
        /\ lo # hi /\ raw[i] = lo => v = 0

\* C10: normalization maps a score list into [0, 1], its maximum to 1.0 and
\* its minimum to 0.0 when it is not constant and every member to 1.0 when it
\* is, in HybridRanker._normalize_scores and for the BM25 and the semantic
\* vector of SearchService.hybrid_search.
C10_NormalizedRange ==
    /\ (pc = "done" /\ outcome.op = "_normalize_scores") =>
          LET results == request.results
              raw     == [i \in 1..Len(results) |-> results[i][2]]
              key(i)  == _get_doc_key(results[i][1])
          IN  /\ DOMAIN outcome.scores_dict = {key(i) : i \in 1..Len(results)}
              /\ \A i \in 1..Len(results) :
                    (\A j \in (i + 1)..Len(results) : key(j) # key(i)) =>
                        MinMaxOnto(raw, i, outcome.scores_dict[key(i)][2])
    /\ (pc = "done" /\ outcome.op = "hybrid_search" /\ ~outcome.raised
            /\ outcome.bm25_norm # <<>>) =>
          LET semantic_scores == [i \in 1..Len(index) |->
                                     IF "embedding" \in DOMAIN index[i]
                                     THEN request.similarity[i] ELSE 0]
          IN  \A i \in 1..Len(index) :
                  /\ MinMaxOnto(request.bm25_scores, i, outcome.bm25_norm[i])
                  /\ MinMaxOnto(semantic_scores, i, outcome.sem_norm[i])

Searched == pc = "done" /\ outcome.op \in {"hybrid_search", "search"}

\* C19: with adaptive weighting and no explicit weights of the caller,
\* through hybrid_search or through search with its defaults, the weights
\* used (in thousandths) are (400, 600) for a query of at most 2 words,
\* (600, 400) for 3 or 4 words and (700, 300) for more than 4 words.
C19_AdaptiveProfile ==
    (/\ Searched
     /\ ~outcome.raised
     /\ "weights" \in DOMAIN outcome
     /\ request.adaptive
     /\ request.weights \in {None, Default})
    => LET words == Len(Split(request.query))
       IN  outcome.weights = IF words <= 2 THEN <<400, 600>>
                             ELSE IF words <= 4 THEN <<600, 400>>
                             ELSE <<700, 300>>

\* C20: when no entities or embeddings are indexed, a search fails with an
\* error instead of returning an empty result set.
C20_NotIndexedFails ==
    (/\ pc = "done"
     /\ outcome.op \in {"hybrid_search", "search", "pipeline_search"}
     /\ (index = <<>> \/ ("env" \in DOMAIN request /\ ~request.env.indexed)))
    => outcome.raised

(***************************************************************************)
(* GraphService.contextual_search and build_flow_graph                     *)
(* (graph_service.py 245-382)                                              *)
(***************************************************************************)

\* str(x) of a str or of None, as an f-string formats it
PyStr(x) == IF x = None THEN <<"N", "o", "n", "e">> ELSE x

\* f"{e.get('file_path')}::{e.get('name')}"
NodeId(e) == PyStr(Get(e, "file_path", None)) \o <<":", ":">> \o PyStr(Get(e, "name", None))

\* lines 264-285: the node of one base result.  raised says that one of the
\* find_related calls made for it raises, which nothing here catches.
ContextNode(result, all_items, depth) ==
    LET related == IF depth >= 1 THEN find_related(result, all_items) ELSE <<>>
        first   == IF depth >= 2 THEN Take(related, 3) ELSE <<>>
        second  == [k \in 1..Len(first) |-> Take(find_related(first[k], all_items), 2)]
        marked  == [k \in 1..Len(first) |->
                       [j \in 1..Len(second[k]) |-> [depth |-> 2] @@ second[k][j]]]
    IN  [raised  |-> /\ depth >= 1
                     /\ \/ FindRelatedRaises(result, all_items)
                        \/ \E k \in 1..Len(first) : FindRelatedRaises(first[k], all_items),
         base    |-> result,
         related |-> related \o Flatten(marked),
         depth   |-> 0]

\* contextual_search over the base results the search returned
contextual_search(base_results, all_items, depth) ==
    [k \in 1..Len(base_results) |-> ContextNode(base_results[k], all_items, depth)]

\* lines 312-321 and 330-339: the node of an entity
GraphNode(e) ==
    [id       |-> NodeId(e),
     label    |-> Get(e, "name", <<>>),
     type     |-> Get(e, "type", "code"),
     file     |-> Get(e, "file_path", <<>>),
     line     |-> Get(e, "start_line", None),
     score    |-> Get(e, "score", 0),
     language |-> Get(e, "language", ""),
     context  |-> Get(e, "context", <<>>)]

\* lines 343-365: the edge of one related record of a base
GraphEdge(base_item, related) ==
    LET base_id       == NodeId(base_item)
        rel_id        == NodeId(related)
        relation_type == Get(related, "relation_type", "related")
        direction     == Get(related, "direction", "")
    IN  IF relation_type \in {"handles_endpoint", "calls_route", "calls_endpoint"}
        THEN [source    |-> IF direction = "frontend" THEN base_id ELSE rel_id,
              target    |-> IF direction = "frontend" THEN rel_id ELSE base_id,
              type      |-> relation_type,
              strength  |-> Get(related, "relation_strength", "strong"),
              direction |-> direction,
              endpoint  |-> Get(related, "endpoint_match", <<>>)]
        ELSE [source    |-> base_id,
              target    |-> rel_id,
              type      |-> relation_type,
              strength  |-> Get(related, "relation_strength", "weak"),
              direction |-> direction]

\* the visit that leaves out the loop of lines 324-340: the bases alone
VisitedBases(contextual_results) ==
    [k \in 1..Len(contextual_results) |-> contextual_results[k].base]

\* the entities in the order the two loops of lines 306-340 visit them
Visited(contextual_results) ==
    Flatten([k \in 1..Len(contextual_results) |->
               <<contextual_results[k].base>> \o contextual_results[k].related])

\* lines 311-322 and 329-340: a node for the first entity of every id
RECURSIVE UniqueNodes(_, _)
UniqueNodes(entities, node_ids) ==
    IF entities = <<>> THEN <<>>
    ELSE IF NodeId(Head(entities)) \in node_ids
         THEN UniqueNodes(Tail(entities), node_ids)
         ELSE <<GraphNode(Head(entities))>>
              \o UniqueNodes(Tail(entities), node_ids \cup {NodeId(Head(entities))})

\* the edges, in the order the loops append them
GraphEdges(contextual_results) ==
    Flatten([k \in 1..Len(contextual_results) |->
               [j \in 1..Len(contextual_results[k].related) |->
                   GraphEdge(contextual_results[k].base,
                             contextual_results[k].related[j])]])

\* lines 367-382: the graph of the contextual results
FlowGraph(contextual_results) ==
    LET node_list == UniqueNodes(Visited(contextual_results), {})
        edge_list == GraphEdges(contextual_results)
    IN  [nodes       |-> node_list,
         edges       |-> edge_list,
         flow_chains |-> _identify_flow_chains(node_list, edge_list),
         stats |->
            [total_nodes    |-> Len(node_list),
             total_edges    |-> Len(edge_list),
             frontend_nodes |->
                 Len(SelectSeq(node_list, LAMBDA n : Get(n, "language", None)
                                               \in {"javascript", "typescript", "html"})),
             backend_nodes  |->
                 Len(SelectSeq(node_list, LAMBDA n : Get(n, "language", None) = "python")),
             frontend_backend_connections |->
                 Len(SelectSeq(edge_list, LAMBDA e : Get(e, "type", None)
                                               \in {"handles_endpoint", "calls_route"}))]]

\* build_flow_graph(query): the possible outcomes; the search of line 258
\* is hybrid_search(query, max_results=5)
build_flow_graph(all_items, env, query, bm25_scores, similarity) ==
    { LET contextual_results == contextual_search(found.results, all_items, 2)
      IN  IF found.raised
             \/ \E k \in 1..Len(contextual_results) : contextual_results[k].raised
          THEN [op |-> "build_flow_graph", raised |-> TRUE]
          ELSE [op |-> "build_flow_graph", raised |-> FALSE,
                graph |-> FlowGraph(contextual_results)] :
      found \in hybrid_search(all_items, env, query, bm25_scores, similarity, 5,
                              None, TRUE) }

(***************************************************************************)
(* Specification SpecFlow: build_flow_graph("search") over the indexes of  *)
(* the search-button scenario                                              *)
(***************************************************************************)

INDEX_HTML     == <<"i", "n", "d", "e", "x", ".", "h", "t", "m", "l">>
APP_JS         == <<"a", "p", "p", ".", "j", "s">>
ROUTES_PY      == <<"r", "o", "u", "t", "e", "s", ".", "p", "y">>
SEARCH_BTN     == <<"s", "e", "a", "r", "c", "h", "-", "b", "t", "n">>
HANDLE_SEARCH  == <<"h", "a", "n", "d", "l", "e", "S", "e", "a", "r", "c", "h">>
HANDLE_SEARCH_CALL == <<"h", "a", "n", "d", "l", "e", "S", "e", "a", "r", "c", "h", "(", ")">>
API_SEARCH     == <<"/", "a", "p", "i", "/", "s", "e", "a", "r", "c", "h">>
SEARCH_HANDLER == <<"s", "e", "a", "r", "c", "h", "_", "h", "a", "n", "d", "l", "e", "r">>
SEARCH         == <<"s", "e", "a", "r", "c", "h">>

\* <button id="search-btn" onclick="handleSearch()">Search</button>
\* (code_parser.py 668-685)
SearchButton ==
    Embed([type |-> "button", name |-> SEARCH_BTN, language |-> "html",
           file_path |-> INDEX_HTML, start_line |-> 1,
           attributes |-> [id |-> SEARCH_BTN, classes |-> <<>>,
                           text |-> <<"S", "e", "a", "r", "c", "h">>,
                           onclick |-> HANDLE_SEARCH_CALL],
           event_listeners |-> << [event |-> "click", handler |-> HANDLE_SEARCH_CALL] >>])

\* function handleSearch() { fetch('/api/search', {method: 'POST'}) }
\* (code_parser.py 412-425, 532-551, 612-631)
HandleSearch ==
    Embed([type |-> "function", name |-> HANDLE_SEARCH, language |-> "javascript",
           file_path |-> APP_JS, start_line |-> 1,
           api_calls |-> << [type |-> "api_call", method |-> "POST",
                             endpoint |-> API_SEARCH, endpoint_normalized |-> SEARCH,
                             context |-> "frontend"] >>,
           event_listeners |-> <<>>,
           relations |-> << HANDLE_SEARCH, <<"f", "e", "t", "c", "h">> >>])

\* the fetch of handleSearch as an entity of its own (code_parser.py 476-495)
SearchApiCall ==
    Embed([type |-> "api_call", name |-> API_SEARCH, language |-> "javascript",
           file_path |-> APP_JS, start_line |-> 1,
           api_calls |-> << [method |-> "GET", endpoint |-> API_SEARCH] >>])

\* @app.route('/api/search', methods=['POST'])
\* def search_handler(): return jsonify(...)      (code_parser.py 86-160)
SearchHandler ==
    Embed([type |-> "function", name |-> SEARCH_HANDLER, language |-> "python",
           file_path |-> ROUTES_PY, start_line |-> 2,
           routes |-> << [type |-> "route", path |-> API_SEARCH, method |-> "GET"] >>,
           api_calls |-> <<>>,
           relations |-> << <<"j", "s", "o", "n", "i", "f", "y">> >>,
           imports |-> << <<"f", "l", "a", "s", "k">> >>])

\* the decorator of search_handler as an entity of its own
\* (code_parser.py 240-251)
SearchRoute ==
    Embed([type |-> "route", name |-> API_SEARCH, language |-> "python",
           file_path |-> ROUTES_PY, start_line |-> 1,
           routes |-> << [path |-> API_SEARCH, method |-> "GET"] >>])

\* the entities parse_file returns for each of the three files, in the order
\* it appends them; whole says whether the entities the spec does not list
\* (the api_call and the route entity) are indexed too
FileEntities(file, whole) ==
    IF file = "html" THEN <<SearchButton>>
    ELSE IF file = "js" THEN <<HandleSearch>> \o (IF whole THEN <<SearchApiCall>> ELSE <<>>)
    ELSE <<SearchHandler>> \o (IF whole THEN <<SearchRoute>> ELSE <<>>)

\* os.walk lists the files in any order (search_service.py 99-114)
ScenarioIndexes ==
    { FileEntities(order[1], whole) \o FileEntities(order[2], whole)
          \o FileEntities(order[3], whole) :
      order \in { o \in [1..3 -> {"html", "js", "py"}] :
                    \A i, j \in 1..3 : i # j => o[i] # o[j] },
      whole \in BOOLEAN }

AllUp == [indexed |-> TRUE, bm25 |-> TRUE, model |-> TRUE, encodes |-> TRUE]

InitFlow ==
    /\ pc = "idle"
    /\ index \in ScenarioIndexes
    /\ base = None
    /\ nodes = <<>>
    /\ edges = <<>>
    /\ outcome = NoOutcome
    /\ adapter = HybridPipelineAdapter
    /\ doc_metadata = <<>>
    /\ NoRanking

\* the raw scores of the flow specification: pairwise different cosine
\* similarities, so that the search can list the entities in every order,
\* and no BM25 score above 0.0.  max_results = 5 covers the whole index, and
\* the graph reads the order of the results, never their scores (but to copy
\* them into the score field of a node).
FlowSimilarities ==
    { sim \in [1..Len(index) -> 1..Len(index)] :
        \A i, j \in 1..Len(index) : i # j => sim[i] # sim[j] }

\* graph_service.build_flow_graph("search")
BuildFlowGraph ==
    /\ pc = "idle"
    /\ \E env \in Envs, similarity \in FlowSimilarities :
          /\ request' = [env |-> env, query |-> SEARCH]
          /\ outcome' \in build_flow_graph(index, env, SEARCH,
                                           [i \in 1..Len(index) |-> 0], similarity)
    /\ pc' = "done"
    /\ UNCHANGED <<index, doc_metadata, adapter, base, nodes, edges, ranker,
                   lexical_results, semantic_results, context_results>>

NextFlow == BuildFlowGraph

SpecFlow == InitFlow /\ [][NextFlow]_vars

FlowBuilt == pc = "done" /\ outcome.op = "build_flow_graph"

\* C1: over an index that holds the button search-btn bound to handleSearch,
\* the function handleSearch that calls POST /api/search and the route
\* /api/search handled by search_handler, build_flow_graph("search") returns
\* at least one flow chain of exactly 4 node ids that ends at search_handler,
\* and stats.frontend_backend_connections >= 1.
C1_SearchFlowChain ==
    (FlowBuilt /\ request.env = AllUp) =>
        /\ ~outcome.raised
        /\ \E k \in 1..Len(outcome.graph.flow_chains) :
              /\ Len(outcome.graph.flow_chains[k]) = 4
              /\ outcome.graph.flow_chains[k][4] = NodeId(SearchHandler)
        /\ outcome.graph.stats.frontend_backend_connections >= 1

(***************************************************************************)
(* QueryUnderstandingLayer (hybrid_search_pipeline.py 21-162)              *)
(***************************************************************************)

\* s.strip(): without the whitespace at both ends
RECURSIVE StripSpace(_)
StripSpace(s) ==
    IF s # <<>> /\ Head(s) \in Whitespace THEN StripSpace(Tail(s))
    ELSE IF s # <<>> /\ s[Len(s)] \in Whitespace THEN StripSpace(SubSeq(s, 1, Len(s) - 1))
    ELSE s

\* re.sub(r'\s+', ' ', s): one blank for every maximal run of whitespace
RECURSIVE CollapseSpace(_)
CollapseSpace(s) ==
    IF s = <<>> THEN <<>>
    ELSE IF Head(s) \in Whitespace
         THEN IF Len(s) > 1 /\ s[2] \in Whitespace THEN CollapseSpace(Tail(s))
              ELSE <<" ">> \o CollapseSpace(Tail(s))
    ELSE <<Head(s)>> \o CollapseSpace(Tail(s))

\* lines 92-99
_normalize_text(text) ==
    LET stripped == StripSpace(Lower(text))
        \* re.sub(r'[^\w\s]', ' ', text)
        spaced   == [i \in 1..Len(stripped) |->
                        IF stripped[i] \in WordChars \cup Whitespace
                        THEN stripped[i] ELSE " "]
    IN  CollapseSpace(spaced)

\* lines 101-103
_tokenize(text) == SelectSeq(Split(text), LAMBDA word : Len(word) > 1)

\* " ".join(words)
RECURSIVE Join(_)
Join(words) ==
    IF words = <<>> THEN <<>>
    ELSE IF Len(words) = 1 THEN Head(words)
    ELSE Head(words) \o <<" ">> \o Join(Tail(words))

\* self.synonyms (lines 29-38), a dict from a token to its synonyms
synonyms ==
  <<
    [token |-> <<"s", "e", "a", "r", "c", "h">>,
     words |-> << <<"f", "i", "n", "d">>,
                <<"q", "u", "e", "r", "y">>,
                <<"l", "o", "o", "k", "u", "p">>,
                <<"s", "e", "e", "k">> >>],
    [token |-> <<"b", "u", "t", "t", "o", "n">>,
     words |-> << <<"b", "t", "n">>,
                <<"t", "r", "i", "g", "g", "e", "r">>,
                <<"c", "l", "i", "c", "k">>,
                <<"e", "l", "e", "m", "e", "n", "t">> >>],
    [token |-> <<"f", "u", "n", "c", "t", "i", "o", "n">>,
     words |-> << <<"f", "u", "n", "c">>,
                <<"m", "e", "t", "h", "o", "d">>,
                <<"p", "r", "o", "c", "e", "d", "u", "r", "e">>,
                <<"h", "a", "n", "d", "l", "e", "r">> >>],
    [token |-> <<"a", "p", "i">>,
     words |-> << <<"e", "n", "d", "p", "o", "i", "n", "t">>,
                <<"r", "o", "u", "t", "e">>,
                <<"u", "r", "l">>,
                <<"r", "e", "q", "u", "e", "s", "t">> >>],
    [token |-> <<"l", "o", "g", "i", "n">>,
     words |-> << <<"a", "u", "t", "h">>,
                <<"a", "u", "t", "h", "e", "n", "t", "i", "c", "a", "t", "e">>,
                <<"s", "i", "g", "n", "i", "n">> >>],
    [token |-> <<"e", "r", "r", "o", "r">>,
     words |-> << <<"e", "x", "c", "e", "p", "t", "i", "o", "n">>,
                <<"f", "a", "i", "l">>,
                <<"i", "s", "s", "u", "e">>,
                <<"p", "r", "o", "b", "l", "e", "m">> >>],
    [token |-> <<"d", "a", "t", "a", "b", "a", "s", "e">>,
     words |-> << <<"d", "b">>,
                <<"s", "q", "l">>,
                <<"d", "a", "t", "a">>,
                <<"s", "t", "o", "r", "a", "g", "e">> >>],
    [token |-> <<"c", "o", "n", "f", "i", "g">>,
     words |-> << <<"c", "o", "n", "f", "i", "g", "u", "r", "a", "t", "i", "o", "n">>,
                <<"s", "e", "t", "t", "i", "n", "g", "s">>,
                <<"o", "p", "t", "i", "o", "n", "s">> >>]
  >>

\* self.synonyms[token][:2], or nothing for a token without synonyms
TopSynonyms(token) ==
    IF \E k \in 1..Len(synonyms) : synonyms[k].token = token
    THEN Take(synonyms[CHOOSE k \in 1..Len(synonyms) : synonyms[k].token = token].words, 2)
    ELSE <<>>

\* lines 115-121: the first occurrence of every token, in order
RECURSIVE UniqueTokens(_, _)
UniqueTokens(tokens, seen) ==
    IF tokens = <<>> THEN <<>>
    ELSE IF Head(tokens) \in seen THEN UniqueTokens(Tail(tokens), seen)
    ELSE <<Head(tokens)>> \o UniqueTokens(Tail(tokens), seen \cup {Head(tokens)})

\* lines 105-123
_expand_synonyms(query, tokens) ==
    Join(UniqueTokens(Flatten([k \in 1..Len(tokens) |->
                                  <<tokens[k]>> \o TopSynonyms(tokens[k])]), {}))

\* self.intent_patterns (lines 41-58), in the insertion order of the dict
intent_patterns ==
  <<
    [intent |-> "functionality",
     patterns |-> <<
        <<"h", "o", "w">>,
        <<"h", "o", "w", " ", "d", "o", "e", "s">>,
        <<"h", "o", "w", " ", "d", "o">>,
        <<"h", "o", "w", " ", "i", "s">>,
        <<"h", "o", "w", " ", "a", "r", "e">>,
        <<"w", "h", "a", "t", " ", "d", "o", "e", "s">>,
        <<"w", "h", "a", "t", " ", "i", "s">>,
        <<"e", "x", "p", "l", "a", "i", "n">>,
        <<"d", "e", "s", "c", "r", "i", "b", "e">>,
        <<"w", "o", "r", "k">>,
        <<"w", "o", "r", "k", "s">> >>],
    [intent |-> "location",
     patterns |-> <<
        <<"w", "h", "e", "r", "e">>,
        <<"w", "h", "e", "r", "e", " ", "i", "s">>,
        <<"w", "h", "e", "r", "e", " ", "a", "r", "e">>,
        <<"f", "i", "n", "d">>,
        <<"l", "o", "c", "a", "t", "e">>,
        <<"w", "h", "i", "c", "h", " ", "f", "i", "l", "e">>,
        <<"w", "h", "i", "c", "h", " ", "f", "u", "n", "c", "t", "i", "o", "n">>,
        <<"i", "n", " ", "w", "h", "i", "c", "h">> >>],
    [intent |-> "configuration",
     patterns |-> <<
        <<"c", "o", "n", "f", "i", "g">>,
        <<"c", "o", "n", "f", "i", "g", "u", "r", "a", "t", "i", "o", "n">>,
        <<"s", "e", "t", "t", "i", "n", "g", "s">>,
        <<"o", "p", "t", "i", "o", "n", "s">>,
        <<"d", "e", "f", "i", "n", "e">>,
        <<"d", "e", "f", "i", "n", "e", "d">>,
        <<"p", "a", "t", "h">>,
        <<"u", "r", "l">>,
        <<"d", "a", "t", "a", "b", "a", "s", "e">> >>],
    [intent |-> "ui-interaction",
     patterns |-> <<
        <<"b", "u", "t", "t", "o", "n">>,
        <<"c", "l", "i", "c", "k">>,
        <<"f", "o", "r", "m">>,
        <<"i", "n", "p", "u", "t">>,
        <<"u", "i">>,
        <<"i", "n", "t", "e", "r", "f", "a", "c", "e">>,
        <<"f", "r", "o", "n", "t", "e", "n", "d">>,
        <<"u", "s", "e", "r">>,
        <<"i", "n", "t", "e", "r", "a", "c", "t", "i", "o", "n">> >>]
  >>

\* the keywords of line 149
FunctionKeywords ==
    { <<"f", "u", "n", "c", "t", "i", "o", "n">>,
      <<"f", "u", "n", "c">>,
      <<"m", "e", "t", "h", "o", "d">>,
      <<"d", "e", "f">>,
      <<"p", "r", "o", "c", "e", "d", "u", "r", "e">>,
      <<"h", "a", "n", "d", "l", "e", "r">> }

\* the keywords of line 152
ApiKeywords ==
    { <<"a", "p", "i">>,
      <<"e", "n", "d", "p", "o", "i", "n", "t">>,
      <<"r", "o", "u", "t", "e">>,
      <<"u", "r", "l">>,
      <<"r", "e", "q", "u", "e", "s", "t">> }

\* the keywords of line 155
UiKeywords ==
    { <<"b", "u", "t", "t", "o", "n">>,
      <<"b", "t", "n">>,
      <<"c", "l", "i", "c", "k">>,
      <<"e", "l", "e", "m", "e", "n", "t">>,
      <<"f", "o", "r", "m">>,
      <<"i", "n", "p", "u", "t">>,
      <<"u", "i">> }

\* the keywords of line 158
ConfigKeywords ==
    { <<"c", "o", "n", "f", "i", "g">>,
      <<"c", "o", "n", "f", "i", "g", "u", "r", "a", "t", "i", "o", "n">>,
      <<"s", "e", "t", "t", "i", "n", "g", "s">>,
      <<"p", "a", "t", "h">>,
      <<"d", "a", "t", "a", "b", "a", "s", "e">> }

\* lines 133-138: the number of patterns of a category that the query contains
IntentScore(patterns, query_lower) ==
    Cardinality({ k \in 1..Len(patterns) : IsSub(patterns[k], query_lower) })

\* lines 130-138: the score of every category, in the order of the dict
IntentScores(query) ==
    [k \in 1..Len(intent_patterns) |->
        IntentScore(intent_patterns[k].patterns, Lower(query))]

\* the last item of the highest score, where max returns the first
MaxIntentLast(intent_scores) ==
    CHOOSE k \in 1..Len(intent_scores) :
        /\ \A j \in 1..Len(intent_scores) : intent_scores[j] <= intent_scores[k]
        /\ \A j \in (k + 1)..Len(intent_scores) : intent_scores[j] < intent_scores[k]

\* line 142: max(items, key=score) is the first item of the highest score
MaxIntent(intent_scores) ==
    CHOOSE k \in 1..Len(intent_scores) :
        /\ \A j \in 1..Len(intent_scores) : intent_scores[j] <= intent_scores[k]
        /\ \A j \in 1..(k - 1) : intent_scores[j] < intent_scores[k]

\* the fallback with the UI keywords before the function and API keywords
IntentFallbackUiFirst(tokens) ==
    IF \E k \in 1..Len(tokens) : tokens[k] \in UiKeywords THEN "ui-interaction"
    ELSE IF \E k \in 1..Len(tokens) : tokens[k] \in FunctionKeywords THEN "functionality"
    ELSE IF \E k \in 1..Len(tokens) : tokens[k] \in ApiKeywords THEN "functionality"
    ELSE IF \E k \in 1..Len(tokens) : tokens[k] \in ConfigKeywords THEN "configuration"
    ELSE "general"

\* lines 148-161: the keyword fallback
IntentFallback(tokens) ==
    IF \E k \in 1..Len(tokens) : tokens[k] \in FunctionKeywords THEN "functionality"
    ELSE IF \E k \in 1..Len(tokens) : tokens[k] \in ApiKeywords THEN "functionality"
    ELSE IF \E k \in 1..Len(tokens) : tokens[k] \in UiKeywords THEN "ui-interaction"
    ELSE IF \E k \in 1..Len(tokens) : tokens[k] \in ConfigKeywords THEN "configuration"
    ELSE "general"

\* lines 125-161
_detect_intent(query, tokens) ==
    LET intent_scores == IntentScores(query)
        max_intent    == MaxIntent(intent_scores)
    IN  IF intent_scores[max_intent] > 0 THEN intent_patterns[max_intent].intent
        ELSE IntentFallback(tokens)

\* lines 60-90
preprocess(query) ==
    LET normalized == _normalize_text(query)
        tokens     == _tokenize(normalized)
    IN  [original   |-> query,
         normalized |-> normalized,
         tokens     |-> tokens,
         expanded   |-> _expand_synonyms(normalized, tokens),
         intent     |-> _detect_intent(normalized, tokens)]


(***************************************************************************)
(* Specification SpecQuery: the query understanding layer over every short *)
(* text and every short query of words                                     *)
(***************************************************************************)

\* the longest text handed to _normalize_text
MaxText == 4

\* the most words and phrases of a query handed to preprocess
MaxWords == 2

\* a letter of each case, the two kinds of whitespace, a punctuation mark and
\* the underscore
TextAlphabet == {"a", "B", " ", "\t", "!", "_"}

QueryTexts == SeqsUpTo(TextAlphabet, MaxText)

\* phrases and words with and without a pattern or a keyword in them
QueryWords ==
    { <<"w", "h", "e", "r", "e", " ", "i", "s">>,
      <<"h", "o", "w", " ", "d", "o", "e", "s">>,
      <<"f", "i", "n", "d">>,
      <<"s", "h", "o", "w", "i", "n", "g">>,
      <<"b", "u", "t", "t", "o", "n">>,
      <<"b", "t", "n">>,
      <<"a", "p", "i">>,
      <<"c", "o", "n", "f", "i", "g">>,
      <<"t", "h", "e">>,
      <<"x">>,
      <<"?">> }

IntentQueries == { Join(words) : words \in SeqsUpTo(QueryWords, MaxWords) }

InitQuery ==
    /\ pc = "idle"
    /\ index = <<>>
    /\ base = None
    /\ nodes = <<>>
    /\ edges = <<>>
    /\ outcome = NoOutcome
    /\ adapter = HybridPipelineAdapter
    /\ doc_metadata = <<>>
    /\ NoRanking

\* preprocessor._normalize_text(text)
NormalizeText ==
    /\ pc = "idle"
    /\ \E text \in QueryTexts :
          /\ request' = [text |-> text]
          /\ outcome' = [op |-> "_normalize_text", raised |-> FALSE,
                         text |-> _normalize_text(text)]
    /\ pc' = "done"
    /\ UNCHANGED <<index, doc_metadata, adapter, base, nodes, edges, ranker,
                   lexical_results, semantic_results, context_results>>

\* preprocessor.preprocess(query)
Preprocess ==
    /\ pc = "idle"
    /\ \E query \in IntentQueries :
          /\ request' = [query |-> query]
          /\ outcome' = [op |-> "preprocess", raised |-> FALSE] @@ preprocess(query)
    /\ pc' = "done"
    /\ UNCHANGED <<index, doc_metadata, adapter, base, nodes, edges, ranker,
                   lexical_results, semantic_results, context_results>>

NextQuery == NormalizeText \/ Preprocess

SpecQuery == InitQuery /\ [][NextQuery]_vars

Normalized == pc = "done" /\ outcome.op = "_normalize_text"

Preprocessed == pc = "done" /\ outcome.op = "preprocess"

\* C13: query normalization is idempotent: normalizing a normalized text
\* gives the same text, also for a text that begins or ends with punctuation.
C13_NormalizeIdempotent ==
    Normalized => _normalize_text(outcome.text) = outcome.text

WHERE_IS == <<"w", "h", "e", "r", "e", " ", "i", "s", " ">>

\* C15: the intent is a function of the query text alone, and every query of
\* the form "where is X" is classified as location, whatever X is.
C15_WhereIsLocation ==
    Preprocessed =>
        /\ outcome.intent = preprocess(request.query).intent
        /\ StartsWith(request.query, WHERE_IS) => outcome.intent = "location"

\* the categories in the order the claims name them
CategoryOrder == <<"functionality", "location", "configuration", "ui-interaction">>

\* the number of phrases of a category that a text contains
PhraseCount(category, text) ==
    LET c == CHOOSE k \in 1..Len(intent_patterns) : intent_patterns[k].intent = category
    IN  Cardinality({ p \in 1..Len(intent_patterns[c].patterns) :
                        IsSub(intent_patterns[c].patterns[p], text) })

\* the highest phrase count of a text over the categories
BestCount(text) == Max({ PhraseCount(CategoryOrder[k], text) : k \in 1..Len(CategoryOrder) })

\* C16: each category scores the number of its phrases that the normalized
\* query contains; the category of the highest nonzero score is returned, and
\* of several categories at that score the first in the order functionality,
\* location, configuration, ui-interaction.
C16_HighestScoreFirstInOrder ==
    Preprocessed =>
        LET count == [k \in 1..Len(CategoryOrder) |->
                         PhraseCount(CategoryOrder[k], outcome.normalized)]
            best  == Max({ count[k] : k \in 1..Len(CategoryOrder) })
        IN  best > 0 =>
                \E k \in 1..Len(CategoryOrder) :
                    /\ outcome.intent = CategoryOrder[k]
                    /\ count[k] = best
                    /\ \A j \in 1..(k - 1) : count[j] < best

\* two categories tie at the highest nonzero score, and the later one in the
\* order is not returned
C16_Witness ==
    /\ Preprocessed
    /\ LET count == [k \in 1..Len(CategoryOrder) |->
                        PhraseCount(CategoryOrder[k], outcome.normalized)]
           best  == Max({ count[k] : k \in 1..Len(CategoryOrder) })
       IN  /\ best > 0
           /\ \E j, k \in 1..Len(CategoryOrder) :
                 /\ j < k
                 /\ count[j] = best
                 /\ count[k] = best
                 /\ outcome.intent = CategoryOrder[j]

HasKeyword(tokens, keywords) == \E k \in 1..Len(tokens) : tokens[k] \in keywords

\* the intents that the keyword fallback returns for some query
FallbackIntents ==
    { preprocess(query).intent :
        query \in { q \in IntentQueries : BestCount(_normalize_text(q)) = 0 } }

\* C17 as stated: when every category scores zero the intent is functionality
\* for a function or API keyword among the tokens, otherwise ui-interaction
\* for a UI keyword, otherwise configuration for a configuration keyword,
\* otherwise general; and each of the four is returned for some query.
C17_FallbackAllReachable ==
    /\ (Preprocessed /\ BestCount(outcome.normalized) = 0) =>
          outcome.intent =
              IF HasKeyword(outcome.tokens, FunctionKeywords \cup ApiKeywords)
              THEN "functionality"
              ELSE IF HasKeyword(outcome.tokens, UiKeywords) THEN "ui-interaction"
              ELSE IF HasKeyword(outcome.tokens, ConfigKeywords) THEN "configuration"
              ELSE "general"
    /\ FallbackIntents = {"functionality", "ui-interaction", "configuration", "general"}

\* C17, amended: the same priority order, of which the configuration step is
\* never taken: every configuration keyword contains a configuration phrase,
\* so a query with such a token does not score zero.  The other three
\* outcomes are returned for some query.
C17_FallbackOrder ==
    /\ (Preprocessed /\ BestCount(outcome.normalized) = 0) =>
          /\ outcome.intent =
                IF HasKeyword(outcome.tokens, FunctionKeywords \cup ApiKeywords)
                THEN "functionality"
                ELSE IF HasKeyword(outcome.tokens, UiKeywords) THEN "ui-interaction"
                ELSE "general"
          /\ ~HasKeyword(outcome.tokens, ConfigKeywords)
    /\ \A keyword \in ConfigKeywords : PhraseCount("configuration", keyword) > 0
    /\ FallbackIntents = {"functionality", "ui-interaction", "general"}

\* no category scores, the tokens hold a UI keyword and an API keyword, and
\* the API keyword decides
C17_Witness ==
    /\ Preprocessed
    /\ BestCount(outcome.normalized) = 0
    /\ HasKeyword(outcome.tokens, UiKeywords)
    /\ HasKeyword(outcome.tokens, ApiKeywords)
    /\ outcome.intent = "functionality"

(***************************************************************************)
(* The other two endpoint normalizers: CodeGraphBuilder._normalize_endpoint*)
(* (code_graph_builder.py 294-301) and CodeParser._normalize_endpoint      *)
(* (code_parser.py 513-530)                                                *)
(***************************************************************************)

\* code_graph_builder.py 294-301: lower-cases before it looks for 'api/'
CodeGraphBuilder_normalize_endpoint(endpoint) ==
    IF endpoint = None \/ endpoint = <<>> THEN <<>>
    ELSE LET normalized == Lower(Strip(endpoint, "/"))
         IN  IF StartsWith(normalized, API_SLASH) THEN Drop(normalized, 4)
             ELSE normalized

\* code_parser.py 513-530: the same text as GraphService._normalize_endpoint
CodeParser_normalize_endpoint(endpoint) ==
    IF endpoint = None \/ endpoint = <<>> THEN <<>>
    ELSE LET normalized == Strip(endpoint, "/")
         IN  Lower(IF StartsWith(normalized, API_SLASH) THEN Drop(normalized, 4)
                   ELSE IF StartsWith(normalized, SLASH_API_SLASH) THEN Drop(normalized, 5)
                   ELSE normalized)

(***************************************************************************)
(* Specification SpecEndpoint: the three normalizers over every endpoint   *)
(* of a few pieces                                                         *)
(***************************************************************************)

\* the most pieces of an endpoint
MaxPieces == 4

\* a slash, the prefix in both cases and two path segments
EndpointPieces ==
    { <<"/">>,
      <<"a", "p", "i", "/">>,
      <<"A", "P", "I", "/">>,
      <<"s">>,
      <<"x">> }

Endpoints == { Flatten(pieces) : pieces \in SeqsUpTo(EndpointPieces, MaxPieces) }

InitEndpoint ==
    /\ pc = "idle"
    /\ index = <<>>
    /\ base = None
    /\ nodes = <<>>
    /\ edges = <<>>
    /\ outcome = NoOutcome
    /\ adapter = HybridPipelineAdapter
    /\ doc_metadata = <<>>
    /\ NoRanking

\* graph_service._normalize_endpoint(endpoint)
GraphServiceNormalize ==
    /\ pc = "idle"
    /\ \E endpoint \in Endpoints :
          /\ request' = [endpoint |-> endpoint]
          /\ outcome' = [op |-> "_normalize_endpoint", class |-> "GraphService",
                         normalized |-> _normalize_endpoint(endpoint)]
    /\ pc' = "done"
    /\ UNCHANGED <<index, doc_metadata, adapter, base, nodes, edges, ranker,
                   lexical_results, semantic_results, context_results>>

\* code_graph_builder._normalize_endpoint(endpoint)
CodeGraphBuilderNormalize ==
    /\ pc = "idle"
    /\ \E endpoint \in Endpoints :
          /\ request' = [endpoint |-> endpoint]
          /\ outcome' = [op |-> "_normalize_endpoint", class |-> "CodeGraphBuilder",
                         normalized |-> CodeGraphBuilder_normalize_endpoint(endpoint)]
    /\ pc' = "done"
    /\ UNCHANGED <<index, doc_metadata, adapter, base, nodes, edges, ranker,
                   lexical_results, semantic_results, context_results>>

\* code_parser._normalize_endpoint(endpoint)
CodeParserNormalize ==
    /\ pc = "idle"
    /\ \E endpoint \in Endpoints :
          /\ request' = [endpoint |-> endpoint]
          /\ outcome' = [op |-> "_normalize_endpoint", class |-> "CodeParser",
                         normalized |-> CodeParser_normalize_endpoint(endpoint)]
    /\ pc' = "done"
    /\ UNCHANGED <<index, doc_metadata, adapter, base, nodes, edges, ranker,
                   lexical_results, semantic_results, context_results>>

NextEndpoint == GraphServiceNormalize \/ CodeGraphBuilderNormalize \/ CodeParserNormalize

SpecEndpoint == InitEndpoint /\ [][NextEndpoint]_vars

\* the normalizer of a class
NormalizeBy(class, endpoint) ==
    CASE class = "GraphService" -> _normalize_endpoint(endpoint)
      [] class = "CodeGraphBuilder" -> CodeGraphBuilder_normalize_endpoint(endpoint)
      [] class = "CodeParser" -> CodeParser_normalize_endpoint(endpoint)

SLASH_API_SEARCH_SLASH == <<"/", "a", "p", "i", "/", "s", "e", "a", "r", "c", "h", "/">>
API_SEARCH_NO_SLASH == <<"a", "p", "i", "/", "s", "e", "a", "r", "c", "h">>

\* C14: each of the three normalizers is idempotent on every endpoint, gives
\* "/api/search/", "api/search" and "search" the same value, and agrees with
\* the other two on every endpoint, upper-case and repeated prefixes included.
C14_EndpointNormalization ==
    (pc = "done" /\ outcome.op = "_normalize_endpoint") =>
        /\ NormalizeBy(outcome.class, outcome.normalized) = outcome.normalized
        /\ NormalizeBy(outcome.class, SLASH_API_SEARCH_SLASH)
              = NormalizeBy(outcome.class, SEARCH)
        /\ NormalizeBy(outcome.class, API_SEARCH_NO_SLASH)
              = NormalizeBy(outcome.class, SEARCH)
        /\ \A class \in {"GraphService", "CodeGraphBuilder", "CodeParser"} :
              NormalizeBy(class, request.endpoint) = outcome.normalized

(***************************************************************************)
(* Specification SpecSymmetry: find_related over the indexes of api_call   *)
(* and route entities                                                      *)
(***************************************************************************)

\* the largest index of the symmetry specification
MaxPairIndex == 3

ROOT == <<"/">>
SLASH_S == <<"/", "s">>
R_PY == <<"r", ".", "p", "y">>

\* the endpoints of the calls and the paths of the routes
PairEndpoints == { API_S, SLASH_S, ROOT }

\* fetch(endpoint) in a.js, as the api_call entity of code_parser.py 476-495
FrontendCall(endpoint) ==
    [type |-> "api_call", name |-> endpoint, language |-> "javascript",
     file_path |-> A_JS, start_line |-> 1, end_line |-> 1,
     api_calls |-> << [method |-> "GET", endpoint |-> endpoint] >>]

\* @app.route(path) in r.py, as the route entity of code_parser.py 240-251
BackendRoute(path) ==
    [type |-> "route", name |-> path, language |-> "python",
     file_path |-> R_PY, start_line |-> 1, end_line |-> 1,
     routes |-> << [path |-> path, method |-> "GET"] >>]

PairPool ==
    { FrontendCall(e) : e \in PairEndpoints } \cup { BackendRoute(p) : p \in PairEndpoints }

InitSymmetry ==
    /\ pc = "idle"
    /\ index \in SeqsUpTo(PairPool, MaxPairIndex)
    /\ base = None
    /\ nodes = <<>>
    /\ edges = <<>>
    /\ outcome = NoOutcome
    /\ adapter = HybridPipelineAdapter
    /\ doc_metadata = <<>>
    /\ NoRanking

SpecSymmetry == InitSymmetry /\ [][NextRelated]_vars

\* the related records of the given relation type that were copied from item
RelatedAs(related, item, relation_type) ==
    { k \in 1..Len(related) :
        Untagged(related[k]) = item /\ related[k].relation_type = relation_type }

\* a is a frontend api_call entity, b a backend route entity, and a route
\* path of b is the endpoint of a, literally or after normalization
EndpointPair(a, b) ==
    /\ Get(a, "type", "") = "api_call" /\ _detect_context(a) = "frontend"
    /\ Get(b, "type", "") = "route" /\ _detect_context(b) = "backend"
    /\ \E i \in 1..Len(Get(a, "api_calls", <<>>)), j \in 1..Len(Get(b, "routes", <<>>)) :
          \/ a.api_calls[i].endpoint = b.routes[j].path
          \/ _normalize_endpoint(a.api_calls[i].endpoint)
                = _normalize_endpoint(b.routes[j].path)

\* C18: for a frontend api_call entity A and a backend route entity B whose
\* route path matches A's endpoint, find_related(A) contains B as
\* handles_endpoint if and only if find_related(B) contains A as calls_route,
\* when neither list is cut by the limit of 15.
C18_EndpointSymmetry ==
    Returned =>
        \A k \in 1..Len(index) :
            (/\ InList(base, index)
             /\ EndpointPair(base, index[k])
             /\ Len(Discovered(base, index)) <= RelatedLimit
             /\ Len(Discovered(index[k], index)) <= RelatedLimit)
            => (RelatedAs(outcome.related, index[k], "handles_endpoint") # {}
                  <=> RelatedAs(find_related(index[k], index), base, "calls_route") # {})

(***************************************************************************)
(* GraphContextSearch.expand_related and HybridSearchPipeline.search       *)
(* Scores are in millionths.                                               *)
(***************************************************************************)

\* base_results[:10] and related[:5] of expand_related
ExpandLimit == 10
RelatedTop == 5

\* base_score * 1.2
Boost(base_score) == (base_score * 12) \div 10

\* strength_scores.get(rel.get("relation_strength", "weak"), 0.2)
StrengthScore(rel) ==
    LET strength == Get(rel, "relation_strength", "weak")
    IN  IF strength = "strong" THEN 800000
        ELSE IF strength = "medium" THEN 500000
        ELSE 200000

\* the inner loop over related[:5]: the related components whose key is new
RECURSIVE AddRelated(_, _, _)
AddRelated(related, seen_docs, emitted) ==
    IF related = <<>>
    THEN [seen_docs |-> seen_docs, context_results |-> emitted]
    ELSE LET rel == Head(related)
             rel_key == _get_doc_key(rel)
         IN  IF rel_key \notin seen_docs
             THEN AddRelated(Tail(related), seen_docs \cup {rel_key},
                             Append(emitted, <<rel, StrengthScore(rel)>>))
             ELSE AddRelated(Tail(related), seen_docs, emitted)

\* the outer loop over base_results[:10], emitted being the context_results
\* list so far; GraphContextSearch._get_doc_key
\* (lines 531-537) builds the same key as the ranker's _get_doc_key
RECURSIVE ExpandLoop(_, _, _, _)
ExpandLoop(base_results, all_items, seen_docs, emitted) ==
    IF base_results = <<>> THEN emitted
    ELSE LET metadata == Head(base_results)[1]
             base_score == Head(base_results)[2]
             doc_key == _get_doc_key(metadata)
             seen == seen_docs \cup {doc_key}
         IN  IF doc_key \in seen_docs
             THEN ExpandLoop(Tail(base_results), all_items, seen_docs, emitted)
             ELSE IF FindRelatedRaises(metadata, all_items)
             THEN ExpandLoop(Tail(base_results), all_items, seen,
                             Append(emitted, <<metadata, base_score>>))
             ELSE LET added ==
                          AddRelated(Take(find_related(metadata, all_items), RelatedTop),
                                     seen,
                                     Append(emitted,
                                            <<metadata, Boost(base_score)>>))
                  IN  ExpandLoop(Tail(base_results), all_items, added.seen_docs,
                                 added.context_results)

\* graph_context.expand_related(base_results); graph_service tells whether
\* the GraphContextSearch was given a GraphService, all_items is the index
\* that service scans
expand_related(graph_service, base_results, all_items) ==
    IF ~graph_service THEN <<>>
    ELSE ExpandLoop(Take(base_results, ExpandLimit), all_items, {}, <<>>)

\* OutputFormatter._has_complete_flow
_has_complete_flow(results) ==
    /\ \E i \in 1..Len(results) : Get(results[i], "type", None) \in {"button", "element"}
    /\ \E i \in 1..Len(results) :
          Get(results[i], "language", None) \in {"javascript", "typescript"}
    /\ \E i \in 1..Len(results) :
          \/ Get(results[i], "language", None) = "python"
          \/ Get(results[i], "type", None) = "route"

\* OutputFormatter.format_results; the summary and the context descriptions
\* are display text and are left out
format_results(query, intent, results) ==
    [query |-> query, intent |-> intent, results |-> results,
     total_matches |-> Len(results), has_flow |-> _has_complete_flow(results)]

\* self.ranker.alpha = alpha, ... when the three weights are given
SetWeights(self, weights) ==
    IF weights = None THEN self
    ELSE [alpha |-> weights[1], beta |-> weights[2], gamma |-> weights[3]] @@ self

\* HybridSearchPipeline.search(query, top_k, alpha, beta, gamma): the ranker
\* it leaves, the context list it built and its possible outcomes; lexical
\* and semantic are what the two engines return for the query, and stages
\* lists the retrieval calls of lines 740-759 the search made
HybridSearchPipeline_search(self, graph_service, all_items, query, top_k, weights, lexical, semantic) ==
    LET preprocessed == preprocess(query)
        new_ranker == SetWeights(self, weights)
        context == IF graph_service THEN expand_related(graph_service, semantic, all_items)
                   ELSE <<>>
        searched == <<"lexical_engine.search", "semantic_engine.search">>
                    \o (IF graph_service THEN <<"graph_context.expand_related">> ELSE <<>>)
    IN  [ranker |-> new_ranker,
         context |-> context,
         outcomes |->
            { IF c.raised
              THEN [op |-> "pipeline_search", raised |-> TRUE, error |-> c.error,
                    stages |-> searched]
              ELSE [op |-> "pipeline_search", raised |-> FALSE, error |-> "",
                    stages |-> searched]
                   @@ format_results(query, preprocessed.intent, c.results) :
              c \in combine_results(new_ranker, lexical, semantic, context,
                                    preprocessed.intent, top_k) }]

(***************************************************************************)
(* Specification SpecPipeline: one expand_related or one pipeline search   *)
(* over every small index                                                  *)
(***************************************************************************)

PipelinePool == { FrontendCall(API_S), BackendRoute(API_S), NullRelationsEntity }

\* what an engine returns: each document of the index at most once, best
\* score first (lines 203-220 and 310-320)
EngineResults(items, n) ==
    LET picks == { p \in SeqsUpTo((1..Len(items)) \X (1..MaxScore), n) :
                     \A a, b \in 1..Len(p) :
                        a < b => p[a][1] # p[b][1] /\ p[a][2] >= p[b][2] }
    IN  { [k \in 1..Len(p) |->
              <<Metadata(items[p[k][1]]), p[k][2] * (ONE \div MaxScore)>>] :
          p \in picks }

\* a list longer than the slice: ExpandLimit entries of the first document,
\* then one entry of the last document
LongResults(items) ==
    IF items = <<>> THEN {}
    ELSE { [k \in 1..(ExpandLimit + 1) |->
              IF k <= ExpandLimit THEN <<Metadata(items[1]), ONE>>
              ELSE <<Metadata(items[Len(items)]), ONE \div 2>>] }

\* the lists a caller can hand to expand_related
BaseResults(items) ==
    SeqsUpTo({ <<Metadata(items[i]), sc * (ONE \div MaxScore)>> :
                 i \in 1..Len(items), sc \in 1..MaxScore }, MaxResults)
    \cup LongResults(items)

\* "where is x", "api" and "x"; the empty query and a blank
PipelineQueries == { WHERE_IS \o <<"x">>, <<"a", "p", "i">>, <<"x">>, <<>>, <<" ">> }

\* alpha, beta, gamma in tenths, or None when the caller gives none
PipelineWeights == { None, <<5, 3, 2>>, <<10, 0, 0>> }

\* the ranker as constructed, or as an earlier search with explicit weights
\* left it (lines 731-734 assign to self.ranker)
PipelineRankers == { HybridRanker(6, 3), SetWeights(HybridRanker(6, 3), <<5, 3, 2>>) }

InitPipeline ==
    /\ pc = "idle"
    /\ index \in SeqsUpTo(PipelinePool, MaxDocs)
    /\ base = None
    /\ nodes = <<>>
    /\ edges = <<>>
    /\ outcome = NoOutcome
    /\ adapter = HybridPipelineAdapter
    /\ doc_metadata = <<>>
    /\ ranker \in PipelineRankers
    /\ lexical_results = <<>>
    /\ semantic_results = <<>>
    /\ context_results = <<>>
    /\ request = None

\* graph_context.expand_related(base_results, depth=2)
ExpandRelated ==
    /\ pc = "idle"
    /\ \E graph_service \in BOOLEAN, base_results \in BaseResults(index) :
          /\ request' = [graph_service |-> graph_service, base_results |-> base_results]
          /\ outcome' = [op |-> "expand_related", raised |-> FALSE,
                         results |-> expand_related(graph_service, base_results, index)]
    /\ pc' = "done"
    /\ UNCHANGED <<index, doc_metadata, adapter, base, nodes, edges, ranker,
                   lexical_results, semantic_results, context_results>>

\* pipeline.search(query, top_k, alpha, beta, gamma)
PipelineSearch ==
    /\ pc = "idle"
    /\ \E query \in PipelineQueries, top_k \in 1..MaxResults, weights \in PipelineWeights,
          graph_service \in BOOLEAN,
          lexical \in EngineResults(index, MaxContext),
          semantic \in EngineResults(index, MaxResults) :
          LET call == HybridSearchPipeline_search(ranker, graph_service, index, query,
                                                  top_k, weights, lexical, semantic)
          IN  /\ request' = [query |-> query, top_k |-> top_k, weights |-> weights,
                             graph_service |-> graph_service]
              /\ ranker' = call.ranker
              /\ lexical_results' = lexical
              /\ semantic_results' = semantic
              /\ context_results' = call.context
              /\ outcome' \in call.outcomes
    /\ pc' = "done"
    /\ UNCHANGED <<index, doc_metadata, adapter, base, nodes, edges>>

NextPipeline == ExpandRelated \/ PipelineSearch

SpecPipeline == InitPipeline /\ [][NextPipeline]_vars

PipelineSearched == pc = "done" /\ outcome.op = "pipeline_search"

\* C11: a pipeline search returns its result, and when alpha, beta and gamma
\* are given, the ranker holds exactly those three weights for the call.
C11_ExplicitWeightsUsed ==
    PipelineSearched
    => /\ ~outcome.raised
       /\ request.weights # None
             => <<ranker.alpha, ranker.beta, ranker.gamma>> = request.weights

\* the first occurrence of every document of a result list, in list order
RECURSIVE DistinctHits(_, _)
DistinctHits(results, seen_docs) ==
    IF results = <<>> THEN <<>>
    ELSE IF _get_doc_key(Head(results)[1]) \in seen_docs
    THEN DistinctHits(Tail(results), seen_docs)
    ELSE <<Head(results)>>
         \o DistinctHits(Tail(results), seen_docs \cup {_get_doc_key(Head(results)[1])})

\* C12: expand_related emits, for each of the first 10 distinct base hits,
\* the hit itself with 1.2 times its base score, also when the hit was
\* already emitted as a related component of an earlier hit.
C12_EveryBaseHitBoosted ==
    (/\ pc = "done"
     /\ outcome.op = "expand_related"
     /\ request.graph_service)
    => LET hits == Take(DistinctHits(request.base_results, {}), ExpandLimit)
       IN  \A i \in 1..Len(hits) :
              \E k \in 1..Len(outcome.results) :
                 outcome.results[k] = <<hits[i][1], Boost(hits[i][2])>>

(***************************************************************************)
(* Specification SpecCalls: find_related over functions that call and      *)
(* import each other, with empty and shared names, and root endpoints      *)
(***************************************************************************)

\* the largest index of the function-call specification
MaxCallIndex == 3

T_NAME == <<"t">>

\* def name(...) at start_line of the file, calling the functions in
\* relations (code_parser.py 144-160)
FunctionEntity(file_path, name, start_line, relations) ==
    [type |-> "function", name |-> name, language |-> "python",
     file_path |-> file_path, start_line |-> start_line, relations |-> relations]

\* import s (an entity of a module with its imports)
ImporterEntity ==
    [type |-> "file", name |-> <<"m">>, language |-> "python", file_path |-> D_PY,
     start_line |-> 1, imports |-> << S_NAME >>]

\* s calls t; two functions t of b.py (lines 1 and 9) call s; a function
\* with the empty name calls s; a module without a name; an importer; a call
\* and a route of the root endpoint
CallPool ==
    { FunctionEntity(B_PY, S_NAME, 5, << T_NAME >>),
      FunctionEntity(B_PY, T_NAME, 1, << S_NAME >>),
      FunctionEntity(B_PY, T_NAME, 9, << S_NAME >>),
      FunctionEntity(C_PY, <<>>, 1, << S_NAME >>),
      NamelessEntity, ImporterEntity,
      FrontendCall(ROOT), BackendRoute(ROOT) }

InitCalls ==
    /\ pc = "idle"
    /\ index \in SeqsUpTo(CallPool, MaxCallIndex)
    /\ base = None
    /\ nodes = <<>>
    /\ edges = <<>>
    /\ outcome = NoOutcome
    /\ adapter = HybridPipelineAdapter
    /\ doc_metadata = <<>>
    /\ NoRanking

SpecCalls == InitCalls /\ [][NextRelated]_vars

\* a and b differ in (file_path, name)
DifferentEntity(a, b) ==
    <<Get(a, "file_path", <<>>), Get(a, "name", <<>>)>>
        # <<Get(b, "file_path", <<>>), Get(b, "name", <<>>)>>

\* C24: for entities A and B that differ in (file_path, name),
\* find_related(A) contains B as calls_function if and only if
\* find_related(B) contains A as called_by_function, when neither list is
\* cut by the limit of 15.
C24_CallSymmetry ==
    Returned =>
        \A k \in 1..Len(index) :
            (/\ InList(base, index)
             /\ DifferentEntity(base, index[k])
             /\ ~FindRelatedRaises(index[k], index)
             /\ Len(Discovered(base, index)) <= RelatedLimit
             /\ Len(Discovered(index[k], index)) <= RelatedLimit)
            => (RelatedAs(outcome.related, index[k], "calls_function") # {}
                  <=> RelatedAs(find_related(index[k], index), base, "called_by_function") # {})

\* the normalized endpoint of an api_call record (lines 132, 178)
NormalizedEndpoint(api_call) ==
    Get(api_call, "endpoint_normalized",
        _normalize_endpoint(Get(api_call, "endpoint", <<>>)))

\* C26: find_related never reports a relation on the basis of an empty
\* string: a base with an empty name yields no calls_function or imports
\* relation, a candidate with an empty name no called_by_function relation,
\* and a route or endpoint that normalizes to the empty string no
\* handles_endpoint or calls_route relation.
C26_NoEmptyStringRelation ==
    Returned =>
        \A k \in 1..Len(outcome.related) :
            LET r == outcome.related[k]
                routes == Get(r, "routes", <<>>)
                api_calls == Get(r, "api_calls", <<>>)
                base_endpoint == BaseApiCall(base).endpoint_normalized
                base_route == _normalize_endpoint(Get(base, "name", <<>>))
            IN  /\ Get(base, "name", <<>>) = <<>>
                      => r.relation_type \notin {"calls_function", "imports"}
                /\ Get(r, "name", <<>>) = <<>>
                      => r.relation_type # "called_by_function"
                /\ r.relation_type = "handles_endpoint"
                      => /\ base_endpoint # <<>>
                         /\ \E i \in 1..Len(routes) :
                               LET route == _normalize_endpoint(Get(routes[i], "path", <<>>))
                               IN  route # <<>> /\ EndpointsMatch(base_endpoint, route)
                /\ r.relation_type = "calls_route"
                      => /\ base_route # <<>>
                         /\ \E i \in 1..Len(api_calls) :
                               /\ NormalizedEndpoint(api_calls[i]) # <<>>
                               /\ EndpointsMatch(base_route, NormalizedEndpoint(api_calls[i]))

(***************************************************************************)
(* CodeGraphBuilder._identify_flow_chains (code_graph_builder.py 303-342)  *)
(* The walk state st holds the locals chain and chains, and two records    *)
(* of the walk: seeds, the seed under which each chain was emitted, and    *)
(* restored, the working chain after each handles_event edge of a seed.    *)
(***************************************************************************)

\* if node_id not in chain: chain.append(node_id)
AppendNew(chain, node_id) ==
    IF InList(node_id, chain) THEN chain ELSE Append(chain, node_id)

\* if node_id in chain: chain.pop()
PopIfIn(chain, node_id) ==
    IF InList(node_id, chain) THEN Pop(chain) ELSE chain

\* lines 333-337: the loop over backend_edges
RECURSIVE BuilderWalkBackend(_, _, _)
BuilderWalkBackend(backend_edges, seed, st) ==
    IF backend_edges = <<>> THEN st
    ELSE LET backend_node_id == Head(backend_edges).target
         IN  BuilderWalkBackend(
                 Tail(backend_edges), seed,
                 IF InList(backend_node_id, st.chain) THEN st
                 ELSE [st EXCEPT !.chains = Append(@, Append(st.chain, backend_node_id)),
                                 !.seeds = Append(@, seed)])

\* lines 325-339: the loop over api_edges
RECURSIVE BuilderWalkApi(_, _, _, _)
BuilderWalkApi(api_edges, edge_list, seed, st) ==
    IF api_edges = <<>> THEN st
    ELSE LET api_node_id == Head(api_edges).target
             inner == BuilderWalkBackend(
                          EdgesFrom(edge_list, api_node_id, {"handles_route"}), seed,
                          [st EXCEPT !.chain = AppendNew(@, api_node_id)])
         IN  BuilderWalkApi(Tail(api_edges), edge_list, seed,
                            [inner EXCEPT !.chain = PopIfIn(@, api_node_id)])

\* lines 318-341: the loop over event_edges
RECURSIVE BuilderWalkEvents(_, _, _, _)
BuilderWalkEvents(event_edges, edge_list, seed, st) ==
    IF event_edges = <<>> THEN st
    ELSE LET js_node_id == Head(event_edges).target
             inner == BuilderWalkApi(
                          EdgesFrom(edge_list, js_node_id, {"calls_endpoint"}),
                          edge_list, seed,
                          [st EXCEPT !.chain = AppendNew(@, js_node_id)])
             after == PopIfIn(inner.chain, js_node_id)
         IN  BuilderWalkEvents(Tail(event_edges), edge_list, seed,
                               [inner EXCEPT !.chain = after,
                                             !.restored = Append(@, <<seed, after>>)])

\* the node types that seed a chain (line 310)
BuilderSeedTypes == {"button", "element", "form", "input"}

\* lines 312-341: the loop over html_nodes
RECURSIVE BuilderWalkSeeds(_, _, _)
BuilderWalkSeeds(html_nodes, edge_list, st) ==
    IF html_nodes = <<>> THEN st
    ELSE LET seed == Head(html_nodes).id
         IN  BuilderWalkSeeds(
                 Tail(html_nodes), edge_list,
                 BuilderWalkEvents(EdgesFrom(edge_list, seed, {"handles_event"}),
                                   edge_list, seed, [st EXCEPT !.chain = <<seed>>]))

\* the walk of _identify_flow_chains(nodes, edges)
BuilderWalk(node_list, edge_list) ==
    BuilderWalkSeeds(
        SelectSeq(node_list, LAMBDA n : Get(n, "type", None) \in BuilderSeedTypes),
        edge_list,
        [chain |-> <<>>, chains |-> <<>>, seeds |-> <<>>, restored |-> <<>>])

\* return chains[:10]
CodeGraphBuilder_identify_flow_chains(node_list, edge_list) ==
    Take(BuilderWalk(node_list, edge_list).chains, ChainLimit)

(***************************************************************************)
(* Specification SpecBuilderChains: the builder's flow chains over small   *)
(* graphs with self-loops and cycles                                       *)
(***************************************************************************)

\* the longest node list and edge list of the specification
MaxBuilderNodes == 2
MaxBuilderEdges == 4

BuilderNodePool == { [id |-> "b", type |-> "button"], [id |-> "f", type |-> "form"] }

\* b -> h -> a -> r, with a self-loop at every level and the edges that lead
\* back to an earlier node of the path
BuilderEdgePool ==
    { Edge("b", "h", "handles_event"), Edge("b", "b", "handles_event"),
      Edge("f", "h", "handles_event"),
      Edge("h", "a", "calls_endpoint"), Edge("h", "h", "calls_endpoint"),
      Edge("h", "b", "calls_endpoint"), Edge("b", "a", "calls_endpoint"),
      Edge("a", "r", "handles_route"), Edge("a", "a", "handles_route"),
      Edge("a", "b", "handles_route"), Edge("h", "r", "handles_route") }

InitBuilderChains ==
    /\ pc = "idle"
    /\ index = <<>>
    /\ base = None
    /\ nodes \in SeqsUpTo(BuilderNodePool, MaxBuilderNodes)
    /\ edges \in SeqsUpTo(BuilderEdgePool, MaxBuilderEdges)
    /\ outcome = NoOutcome
    /\ adapter = HybridPipelineAdapter
    /\ doc_metadata = <<>>
    /\ NoRanking

\* graph_builder._identify_flow_chains(nodes, edges)
BuilderIdentifyFlowChains ==
    /\ pc = "idle"
    /\ LET walk == BuilderWalk(nodes, edges)
       IN  outcome' = [op |-> "builder_flow_chains",
                       chains |-> CodeGraphBuilder_identify_flow_chains(nodes, edges),
                       seeds |-> Take(walk.seeds, ChainLimit),
                       restored |-> walk.restored]
    /\ pc' = "done"
    /\ UNCHANGED <<index, doc_metadata, adapter, base, nodes, edges,
                   rankvars>>

NextBuilderChains == BuilderIdentifyFlowChains

SpecBuilderChains == InitBuilderChains /\ [][NextBuilderChains]_vars

\* C25: every chain emitted by CodeGraphBuilder._identify_flow_chains has
\* exactly 4 pairwise distinct node ids and starts with its seed, and the
\* working chain is exactly [seed] again after each handles_event edge of
\* the seed has been explored, also over self-loops and cycles.
C25_BuilderChainsWellFormed ==
    (pc = "done" /\ outcome.op = "builder_flow_chains")
    => /\ \A n \in 1..Len(outcome.chains) :
             LET c == outcome.chains[n]
             IN  /\ Len(c) = 4
                 /\ \A i, j \in 1..Len(c) : i # j => c[i] # c[j]
                 /\ c[1] = outcome.seeds[n]
       /\ \A n \in 1..Len(outcome.restored) :
             outcome.restored[n][2] = << outcome.restored[n][1] >>

(***************************************************************************)
(* A query the embedding model cannot encode (search_service.py 365-373)   *)
(***************************************************************************)

\* a hybrid search that reaches the encoding of the query, the encoding
\* fails, and some entity has a positive BM25 score
EncodeFails ==
    /\ pc = "done"
    /\ outcome.op = "hybrid_search"
    /\ index # <<>>
    /\ request.env = [indexed |-> TRUE, bm25 |-> TRUE, model |-> TRUE, encodes |-> FALSE]
    /\ request.weights # None \/ request.adaptive
    /\ _tokenize_for_bm25(request.query) # <<>>
    /\ \E i \in 1..Len(index) : request.bm25_scores[i] > 0

\* C22: when encoding the query fails, the semantic signal counts as empty
\* and the search still returns results ranked from the lexical signal: the
\* failure neither propagates nor empties the result.
C22_EncodeFailureKeepsLexical ==
    EncodeFails => ~outcome.raised /\ outcome.results # <<>>

(***************************************************************************)
(* Specification SpecGraph: build_flow_graph("search") over an index of    *)
(* more entities than the search returns (graph_service.py 301-382)        *)
(***************************************************************************)

MORE_JS == <<"m", "o", "r", "e", ".", "j", "s">>

\* fetch('/api/search') of a second script, as an entity of its own
\* (code_parser.py 476-495)
MoreApiCall ==
    Embed([type |-> "api_call", name |-> API_SEARCH, language |-> "javascript",
           file_path |-> MORE_JS, start_line |-> 1,
           api_calls |-> << [method |-> "GET", endpoint |-> API_SEARCH] >>])

\* the whole scenario with the second script scanned last or first: six
\* entities, one more than the five results contextual_search asks for
\* (line 258), so that one entity is reached through its relations only
GraphIndexes ==
    { scenario \o <<MoreApiCall>> : scenario \in { i \in ScenarioIndexes : Len(i) = 5 } }
    \cup { <<MoreApiCall>> \o scenario : scenario \in { i \in ScenarioIndexes : Len(i) = 5 } }

InitGraph ==
    /\ pc = "idle"
    /\ index \in GraphIndexes
    /\ base = None
    /\ nodes = <<>>
    /\ edges = <<>>
    /\ outcome = NoOutcome
    /\ adapter = HybridPipelineAdapter
    /\ doc_metadata = <<>>
    /\ NoRanking

\* pairwise different cosine similarities again, one vector for each entity
\* that can come last and so miss the five results
RotatedSimilarities ==
    { [i \in 1..Len(index) |-> ((i + shift) % Len(index)) + 1] : shift \in 1..Len(index) }

\* graph_service.build_flow_graph("search")
BuildFlowGraphRanked ==
    /\ pc = "idle"
    /\ \E env \in Envs, similarity \in RotatedSimilarities :
          /\ request' = [env |-> env, query |-> SEARCH, similarity |-> similarity]
          /\ outcome' \in build_flow_graph(index, env, SEARCH,
                                           [i \in 1..Len(index) |-> 0], similarity)
    /\ pc' = "done"
    /\ UNCHANGED <<index, doc_metadata, adapter, base, nodes, edges, ranker,
                   lexical_results, semantic_results, context_results>>

NextGraph == BuildFlowGraphRanked

SpecGraph == InitGraph /\ [][NextGraph]_vars

\* the ids of the nodes of a graph
NodeIds(graph) == { graph.nodes[k].id : k \in 1..Len(graph.nodes) }

\* a graph was returned
GraphReturned == FlowBuilt /\ ~outcome.raised

\* C27: the graph of build_flow_graph is well formed: the node ids are
\* pairwise distinct, source and target of every edge are ids of nodes of
\* the list, and stats.total_nodes and stats.total_edges are the lengths of
\* the two lists.
C27_GraphWellFormed ==
    GraphReturned =>
        LET graph == outcome.graph
        IN  /\ \A a, b \in 1..Len(graph.nodes) :
                   a # b => graph.nodes[a].id # graph.nodes[b].id
            /\ \A k \in 1..Len(graph.edges) :
                   /\ graph.edges[k].source \in NodeIds(graph)
                   /\ graph.edges[k].target \in NodeIds(graph)
            /\ graph.stats.total_nodes = Len(graph.nodes)
            /\ graph.stats.total_edges = Len(graph.edges)

\* a graph of the five results that has a node for each of the six entities,
\* one of them reached as a related record only, and more edges than nodes:
\* some entity was visited again and got no second node
C27_Witness ==
    /\ GraphReturned
    /\ Len(outcome.graph.nodes) = Len(index)
    /\ Len(index) > 5
    /\ Len(outcome.graph.edges) > Len(outcome.graph.nodes)

\* the entity of the index a node stands for, as the index holds it and as a
\* search result carries it
EntitiesOf(id) ==
    { index[i] : i \in { j \in 1..Len(index) : NodeId(index[j]) = id } }
    \cup { FormattedItem(index[i]) : i \in { j \in 1..Len(index) : NodeId(index[j]) = id } }

\* find_related(x) reports y with this relation type
Relates(x, id, relation_type) ==
    LET related == find_related(x, index)
    IN  \E k \in 1..Len(related) :
            /\ NodeId(related[k]) = id
            /\ related[k].relation_type = relation_type

\* C28: every edge joins the two entities between which find_related
\* discovered the relation: a relation found at depth 2, from a first-hop
\* entity R to S, is an edge between R and S and never one between the base
\* and S.
C28_EdgeJoinsDiscoverers ==
    GraphReturned =>
        \A k \in 1..Len(outcome.graph.edges) :
            LET e == outcome.graph.edges[k]
            IN  \/ \E x \in EntitiesOf(e.source) : Relates(x, e.target, e.type)
                \/ \E x \in EntitiesOf(e.target) : Relates(x, e.source, e.type)

\* C29: the related list of contextual_search(depth=2) never contains the
\* base result itself, so that no edge of the graph has source = target.
C29_NoSelfEdge ==
    GraphReturned =>
        \A k \in 1..Len(outcome.graph.edges) :
            outcome.graph.edges[k].source # outcome.graph.edges[k].target

(***************************************************************************)
(* HybridPipelineAdapter (hybrid_pipeline_adapter.py 35-207) and the two   *)
(* search routes (routes.py 127-170, 267-320)                              *)
(***************************************************************************)

\* HybridRanker(**kwargs): a keyword that __init__(self, alpha, beta) does
\* not take is a TypeError (hybrid_search_pipeline.py 354)
NewHybridRanker(kwargs) ==
    IF DOMAIN kwargs \subseteq {"alpha", "beta"}
    THEN [raised |-> FALSE, error |-> "", value |-> HybridRanker(kwargs.alpha, kwargs.beta)]
    ELSE [raised |-> TRUE, error |-> "TypeError", value |-> None]

\* adapter.initialize(graph_service=...): the adapter it leaves and whether
\* it raised.  documents is the copy of semantic_index_data that
\* _load_from_search_service hands to pipeline.index (lines 77-136).
HybridPipelineAdapter_initialize(self, graph_service, semantic_index_data) ==
    IF self._initialized THEN [self |-> self, raised |-> FALSE, error |-> ""]
    ELSE LET made == NewHybridRanker([alpha |-> 6, beta |-> 3, gamma |-> 1])
         IN  IF made.raised
             THEN [self |-> self, raised |-> TRUE, error |-> made.error]
             ELSE [self |-> [pipeline |-> [built |-> TRUE, ranker |-> made.value,
                                           graph_context |-> graph_service,
                                           documents |-> semantic_index_data],
                             _initialized |-> TRUE],
                   raised |-> FALSE, error |-> ""]

\* lines 174-195: a result in the format of SearchService
AdapterResult(result) ==
    [file_path         |-> Get(result, "file_path", <<>>),
     name              |-> Get(result, "name", <<>>),
     full_name         |-> Get(result, "name", <<>>),
     type              |-> Get(result, "type", "code"),
     language          |-> Get(result, "language", ""),
     start_line        |-> Get(result, "start_line", 1),
     end_line          |-> Get(result, "end_line", 1),
     code              |-> Get(result, "code", <<>>),
     content           |-> Get(result, "code", <<>>),
     score             |-> Get(result, "score", 0),
     semantic_score    |-> Get(result, "semantic_score", 0),
     lexical_score     |-> Get(result, "lexical_score", 0),
     context_score     |-> Get(result, "context_score", 0),
     context           |-> Get(result, "context", Get(result, "docstring", <<>>)),
     api_calls         |-> Get(result, "api_calls", <<>>),
     event_listeners   |-> Get(result, "event_listeners", <<>>),
     routes            |-> Get(result, "routes", <<>>),
     has_backend_link  |-> Get(result, "has_backend_link", FALSE),
     has_frontend_link |-> Get(result, "has_frontend_link", FALSE)]

\* lines 170-207: what adapter.search makes of the answer of the pipeline
AdapterAnswer(self, call) ==
    [self |-> [self EXCEPT !.pipeline.ranker = call.ranker],
     outcomes |->
        { [op |-> "adapter_search", raised |-> o.raised, error |-> o.error,
           results |-> IF o.raised THEN <<>>
                       ELSE [k \in 1..Len(o.results) |->
                                AdapterResult(o.results[k])]] :
          o \in call.outcomes }]

\* adapter.search(query, top_k, alpha, beta, gamma): the adapter it leaves
\* and its possible outcomes.  found holds what the services return for the
\* query: env, engine, bm25_scores and similarity for the search of the
\* SearchService, lexical and semantic for the two engines of the pipeline.
HybridPipelineAdapter_search(self, semantic_index_data, query, top_k, weights, found) ==
    LET init == IF self._initialized THEN [self |-> self, raised |-> FALSE, error |-> ""]
                ELSE HybridPipelineAdapter_initialize(self, FALSE, semantic_index_data)
        now  == init.self
    IN  IF init.raised
        THEN [self |-> now,
              outcomes |-> { [op |-> "adapter_search", raised |-> TRUE,
                              error |-> init.error, results |-> <<>>] }]
        ELSE IF ~now.pipeline.built
        THEN [self |-> now,
              outcomes |->
                 { [op |-> "adapter_search", raised |-> s.raised, error |-> "",
                    results |-> s.results] :
                   s \in search(semantic_index_data, found.env, found.engine, query,
                                found.bm25_scores, found.similarity, top_k, TRUE,
                                Default, TRUE) }]
        ELSE AdapterAnswer(now,
                 HybridSearchPipeline_search(now.pipeline.ranker,
                     now.pipeline.graph_context, semantic_index_data, query,
                     top_k, weights, found.lexical, found.semantic))

\* a JSON response of a route: its status, and the search calls made for it
Response(op, status, error, stages, results) ==
    [op |-> op, status |-> status, error |-> error, stages |-> stages,
     results |-> results]

\* the checks both routes make before anything else (routes.py 130-140 and
\* 275-285); engine is the legacy engine that is_indexed() asks, data the
\* JSON body
Rejection(engine, data) ==
    IF ~engine.initialized THEN "Codebase not indexed. Call /scan first."
    ELSE IF "query" \notin DOMAIN data THEN "query is required"
    ELSE IF StripSpace(data.query) = <<>> THEN "Query cannot be empty"
    ELSE ""

\* POST /search (routes.py 127-170): the possible responses
routes_search(semantic_index_data, engine, data, found) ==
    IF Rejection(engine, data) # ""
    THEN { Response("route_search", 400, Rejection(engine, data), <<>>, <<>>) }
    ELSE { IF s.raised
           THEN Response("route_search", 500, "Exception", <<"search_service.search">>, <<>>)
           ELSE Response("route_search", 200, "", <<"search_service.search">>, s.results) :
           s \in search(semantic_index_data, found.env, engine, StripSpace(data.query),
                        found.bm25_scores, found.similarity, data.max_results, TRUE,
                        None, TRUE) }

\* routes.py 306-320: the responses to what adapter.search returned or raised
HybridSearchResponse(call) ==
    [self |-> call.self,
     outcomes |->
        { IF o.raised
          THEN Response("route_hybrid_search", 500, o.error,
                        <<"adapter.initialize", "adapter.search">>, <<>>)
          ELSE Response("route_hybrid_search", 200, "",
                        <<"adapter.initialize", "adapter.search">>, o.results) :
          o \in call.outcomes }]

\* POST /hybrid-search (routes.py 267-320): the adapter the request leaves
\* and the possible responses
routes_hybrid_search_pipeline(self, semantic_index_data, engine, data, found) ==
    IF Rejection(engine, data) # ""
    THEN [self |-> self,
          outcomes |-> { Response("route_hybrid_search", 400, Rejection(engine, data),
                                  <<>>, <<>>) }]
    ELSE LET init == HybridPipelineAdapter_initialize(self, TRUE, semantic_index_data)
         IN  IF init.raised
             THEN [self |-> init.self,
                   outcomes |-> { Response("route_hybrid_search", 500, init.error,
                                           <<"adapter.initialize">>, <<>>) }]
             ELSE HybridSearchResponse(
                      HybridPipelineAdapter_search(init.self, semantic_index_data,
                                                   StripSpace(data.query),
                                                   data.max_results, None, found))

(***************************************************************************)
(* Specification SpecService: scans, the adapter, the two routes and the   *)
(* pipeline called in process                                              *)
(***************************************************************************)

\* "x", the empty query, a blank, and "x" between blanks
RouteQueries == { <<"x">>, <<>>, <<" ">>, <<" ", "x", " ">> }

\* the documents the engines of the adapter's pipeline hold
AdapterDocuments ==
    IF adapter.pipeline.built THEN adapter.pipeline.documents ELSE index

\* every document of an engine, each with the best score
AllDocuments(documents) ==
    [k \in 1..Len(documents) |-> <<Metadata(documents[k]), ONE>>]

\* what the services return for one query: no BM25 score above 0.0, equal
\* cosine similarities, and every document from the engines of the pipeline
ServiceAnswers ==
    [env : Envs,
     bm25_scores : { [i \in 1..Len(index) |-> 0] },
     similarity : { [i \in 1..Len(index) |-> 1] },
     lexical : { AllDocuments(AdapterDocuments) },
     semantic : { AllDocuments(AdapterDocuments) }]

InitService ==
    /\ pc = "idle"
    /\ index = <<>>
    /\ base = None
    /\ nodes = <<>>
    /\ edges = <<>>
    /\ outcome = NoOutcome
    /\ adapter = HybridPipelineAdapter
    /\ doc_metadata = <<>>
    /\ ranker = HybridRanker(6, 3)
    /\ lexical_results = <<>>
    /\ semantic_results = <<>>
    /\ context_results = <<>>
    /\ request = None

\* search_service.scan_semantic() (search_service.py 99-200): the entities
\* found replace semantic_index_data, unless none was found or the batch
\* encoding failed
ScanSemantic ==
    /\ pc = "idle"
    /\ \E all_items \in SeqsUpTo(PipelinePool, MaxDocs), encodes \in BOOLEAN :
          index' = IF all_items # <<>> /\ encodes
                   THEN [i \in 1..Len(all_items) |-> Embed(all_items[i])]
                   ELSE index
    /\ pc' = "idle"
    /\ UNCHANGED <<doc_metadata, adapter, base, nodes, edges, outcome, ranker,
                   lexical_results, semantic_results, context_results,
                   request>>

\* hybrid_pipeline_adapter.initialize(graph_service=...)
AdapterInitialize ==
    /\ pc = "idle"
    /\ \E graph_service \in BOOLEAN :
          LET call == HybridPipelineAdapter_initialize(adapter, graph_service, index)
          IN  /\ adapter' = call.self
              /\ outcome' = [op |-> "adapter_initialize", raised |-> call.raised,
                             error |-> call.error]
    /\ pc' = "idle"
    /\ UNCHANGED <<index, doc_metadata, base, nodes, edges, ranker,
                   lexical_results, semantic_results, context_results,
                   request>>

\* hybrid_pipeline_adapter.search(query, top_k, alpha, beta, gamma)
AdapterSearch ==
    /\ pc = "idle"
    /\ \E query \in PipelineQueries, top_k \in 1..MaxResults, weights \in PipelineWeights,
          engine \in Engines, found \in ServiceAnswers :
          \E call \in { HybridPipelineAdapter_search(adapter, index, query, top_k,
                             weights, [engine |-> engine] @@ found) } :
              /\ request' = [query |-> query, top_k |-> top_k, weights |-> weights]
              /\ adapter' = call.self
              /\ outcome' \in call.outcomes
    /\ pc' = "done"
    /\ UNCHANGED <<index, doc_metadata, base, nodes, edges, ranker,
                   lexical_results, semantic_results, context_results>>

\* POST /search with a JSON body
RouteSearch ==
    /\ pc = "idle"
    /\ \E engine \in Engines, has_query \in BOOLEAN, query \in RouteQueries,
          max_results \in 1..MaxResults, found \in ServiceAnswers :
          LET data == IF has_query THEN [query |-> query, max_results |-> max_results]
                      ELSE [max_results |-> max_results]
          IN  /\ request' = [data |-> data, engine |-> engine, env |-> found.env]
              /\ outcome' \in routes_search(index, engine, data, found)
    /\ pc' = "done"
    /\ UNCHANGED <<index, doc_metadata, adapter, base, nodes, edges, ranker,
                   lexical_results, semantic_results, context_results>>

\* POST /hybrid-search with a JSON body
RouteHybridSearch ==
    /\ pc = "idle"
    /\ \E engine \in Engines, has_query \in BOOLEAN, query \in RouteQueries,
          max_results \in 1..MaxResults, found \in ServiceAnswers :
          LET data == IF has_query THEN [query |-> query, max_results |-> max_results]
                      ELSE [max_results |-> max_results]
          IN  \E call \in { routes_hybrid_search_pipeline(adapter, index, engine, data,
                                 [engine |-> engine] @@ found) } :
                  /\ request' = [data |-> data, engine |-> engine, env |-> found.env]
                  /\ adapter' = call.self
                  /\ outcome' \in call.outcomes
    /\ pc' = "done"
    /\ UNCHANGED <<index, doc_metadata, base, nodes, edges, ranker,
                   lexical_results, semantic_results, context_results>>

NextService ==
    \/ ScanSemantic
    \/ AdapterInitialize
    \/ AdapterSearch
    \/ RouteSearch
    \/ RouteHybridSearch
    \/ PipelineSearch

SpecService == InitService /\ [][NextService]_vars

\* the search of an entry point returned or raised
Answered(op) == pc = "done" /\ outcome.op = op

\* C21: an empty or whitespace-only query is rejected with an error before
\* any retrieval stage runs, at the two search routes and at
\* HybridSearchPipeline.search called in process.
C21_BlankQueryRejected ==
    /\ \A op \in {"route_search", "route_hybrid_search"} :
          (/\ Answered(op)
           /\ "query" \in DOMAIN request.data
           /\ StripSpace(request.data.query) = <<>>)
          => outcome.status = 400 /\ outcome.stages = <<>>
    /\ (Answered("pipeline_search") /\ StripSpace(request.query) = <<>>)
          => outcome.raised /\ outcome.stages = <<>>

\* C30: HybridPipelineAdapter.search answers, and from the entities of the
\* most recent completed scan, never from an older or an empty snapshot;
\* also when the adapter was initialized before that scan.
C30_AnswersFromLatestScan ==
    Answered("adapter_search") =>
        /\ ~outcome.raised
        /\ adapter._initialized
        /\ adapter.pipeline.built => adapter.pipeline.documents = index

(***************************************************************************)
(* The dicts the queries write to.  A dict is named by the position of the *)
(* entity in the list that holds it (semantic_index_data or the metadata   *)
(* of the pipeline), or by 0 when the call itself built it.                *)
(***************************************************************************)

\* the dict itself: what item.update(...) or metadata[...] = ... would write
SameObject(obj) == obj

\* {**item, ...} (graph_service.py 98-104 and every other append of
\* find_related) and dict(metadata) (hybrid_search_pipeline.py 419): the
\* keys go to a new dict
Copy(obj) == 0

\* d[k] = v for the keys of fields, d being the dict obj of the list heap
Write(heap, obj, fields) ==
    IF obj = 0 THEN heap ELSE [heap EXCEPT ![obj] = fields @@ @]

\* the entities of a list, each carrying the name of its dict along
Tracked(heap) == [p \in 1..Len(heap) |-> [origin |-> p] @@ heap[p]]

\* the keys of a record without that name
Fields(r) == [k \in DOMAIN r \ {"origin"} |-> r[k]]

\* the appends of one find_related call (lines 98-228): each record is a
\* {**item, ...} of the item it was discovered at
RECURSIVE WriteRelated(_, _)
WriteRelated(heap, discovered) ==
    IF discovered = <<>> THEN heap
    ELSE WriteRelated(Write(heap, Copy(Head(discovered).origin), Fields(Head(discovered))),
                      Tail(discovered))

\* find_related(base_item): the list it returns and the entities it leaves
FindRelatedOn(heap, base_item) ==
    [related |-> find_related(base_item, Tracked(heap)),
     heap    |-> WriteRelated(heap, Discovered(base_item, Tracked(heap)))]

\* lines 282-285: rr["depth"] = 2 for the records of rel_related[:2]
RECURSIVE MarkDepth(_, _)
MarkDepth(heap, rel_related) ==
    IF rel_related = <<>> THEN heap
    ELSE MarkDepth(Write(heap, Copy(Head(rel_related).origin), [depth |-> 2]),
                   Tail(rel_related))

\* lines 281-285, one pass of the loop over related[:3]: found is what
\* find_related(rel) returned and left, node the related list so far
SecondHopOf(node, found) ==
    [heap    |-> MarkDepth(found.heap, Take(found.related, 2)),
     related |-> node.related
                 \o [j \in 1..Len(Take(found.related, 2)) |->
                        [depth |-> 2] @@ Take(found.related, 2)[j]]]

\* lines 279-285: the loop over first = related[:3], appending to
\* node["related"]
RECURSIVE SecondHop(_, _)
SecondHop(node, first) ==
    IF first = <<>> THEN node
    ELSE SecondHop(SecondHopOf(node, FindRelatedOn(node.heap, Head(first))),
                   Tail(first))

\* lines 279-285, when depth > 1, for the related list of the first hop
WithSecondHop(found, depth) ==
    IF depth >= 2 THEN SecondHop(found, Take(found.related, 3)) ELSE found

\* lines 264-287 for one base result: node["related"] and the entities left
ContextNodeOn(heap, result, depth) ==
    WithSecondHop(IF depth >= 1 THEN FindRelatedOn(heap, result)
                  ELSE [related |-> <<>>, heap |-> heap],
                  depth)

\* line 287: results.append(node)
AppendNode(frame, result, node) ==
    [heap    |-> node.heap,
     results |-> Append(frame.results,
                        [base |-> result, related |-> node.related, depth |-> 0])]

\* the loop of contextual_search over the base results (lines 262-287);
\* frame holds the entities and the results so far
RECURSIVE ContextualSearchOn(_, _, _)
ContextualSearchOn(frame, base_results, depth) ==
    IF base_results = <<>> THEN frame
    ELSE ContextualSearchOn(
             AppendNode(frame, Head(base_results),
                        ContextNodeOn(frame.heap, Head(base_results), depth)),
             Tail(base_results), depth)

\* the find_related calls of expand_related (hybrid_search_pipeline.py
\* 503-527), one for every base result whose key is new
RECURSIVE ExpandRelatedOn(_, _, _)
ExpandRelatedOn(heap, base_results, seen_docs) ==
    IF base_results = <<>> THEN heap
    ELSE LET metadata == Head(base_results)[1]
             doc_key  == _get_doc_key(metadata)
             found    == FindRelatedOn(heap, metadata)
             added    == AddRelated(Take(found.related, RelatedTop),
                                    seen_docs \cup {doc_key}, <<>>)
         IN  IF doc_key \in seen_docs
             THEN ExpandRelatedOn(heap, Tail(base_results), seen_docs)
             ELSE ExpandRelatedOn(found.heap, Tail(base_results), added.seen_docs)

\* hybrid_search_pipeline.py 418-424: result = dict(metadata), then the
\* four scores are assigned to result
RECURSIVE WriteScores(_, _)
WriteScores(heap, results) ==
    IF results = <<>> THEN heap
    ELSE WriteScores(Write(heap, Copy(Head(results).origin),
                           [score          |-> Head(results).score,
                            lexical_score  |-> Head(results).lexical_score,
                            semantic_score |-> Head(results).semantic_score,
                            context_score  |-> Head(results).context_score]),
                     Tail(results))

(***************************************************************************)
(* Specification SpecFrame: any sequence of queries over every small index *)
(***************************************************************************)

\* the longest index of this specification
MaxFrameIndex == 2

\* a frontend call and the route it reaches; s, which calls t, and t, which
\* calls s: every entity is related to another one, which is related back
FramePool ==
    { Embed(FrontendCall(API_S)), Embed(BackendRoute(API_S)),
      Embed(FunctionEntity(B_PY, S_NAME, 5, << T_NAME >>)),
      Embed(FunctionEntity(B_PY, T_NAME, 1, << S_NAME >>)) }

InitFrame ==
    /\ pc = "idle"
    /\ index \in SeqsUpTo(FramePool, MaxFrameIndex)
    /\ doc_metadata = [i \in 1..Len(index) |-> Metadata(index[i])]
    /\ base = None
    /\ nodes = <<>>
    /\ edges = <<>>
    /\ outcome = NoOutcome
    /\ adapter = HybridPipelineAdapter
    /\ ranker = HybridRanker(7, 3)
    /\ lexical_results = <<>>
    /\ semantic_results = <<>>
    /\ context_results = <<>>
    /\ request = None

\* the first n documents of the pipeline as an engine returns them
FirstDocuments(n) == [k \in 1..n |-> <<Tracked(doc_metadata)[k], ONE>>]

\* the search of contextual_search (line 258) with every service available:
\* equal scores, which the search may list in any order
FrameSearches ==
    hybrid_search(index, AllUp, S_NAME, [i \in 1..Len(index) |-> 0],
                  [i \in 1..Len(index) |-> 1], 5, None, TRUE)

\* graph_service.find_related(base_item) for an entity of the index
QueryFindRelated ==
    /\ \E p \in 1..Len(index) :
          LET call == FindRelatedOn(index, index[p])
          IN  /\ request' = [base_item |-> index[p]]
              /\ index' = call.heap
              /\ outcome' = [op |-> "find_related", related |-> call.related]
    /\ pc' = "done"
    /\ UNCHANGED <<doc_metadata, adapter, base, nodes, edges, ranker,
                   lexical_results, semantic_results, context_results>>

\* graph_service.contextual_search("s", depth)
QueryContextualSearch ==
    /\ \E found \in FrameSearches, depth \in 1..2 :
          \E call \in { ContextualSearchOn([heap |-> index, results |-> <<>>],
                                            found.results, depth) } :
              /\ request' = [query |-> S_NAME, depth |-> depth]
              /\ index' = call.heap
              /\ outcome' = [op |-> "contextual_search", results |-> call.results]
    /\ pc' = "done"
    /\ UNCHANGED <<doc_metadata, adapter, base, nodes, edges, ranker,
                   lexical_results, semantic_results, context_results>>

\* graph_service.build_flow_graph("s")
QueryBuildFlowGraph ==
    /\ \E found \in FrameSearches :
          \E call \in { ContextualSearchOn([heap |-> index, results |-> <<>>],
                                            found.results, 2) } :
              /\ request' = [query |-> S_NAME]
              /\ index' = call.heap
              /\ outcome' = [op |-> "build_flow_graph", raised |-> FALSE,
                             graph |-> FlowGraph(call.results)]
    /\ pc' = "done"
    /\ UNCHANGED <<doc_metadata, adapter, base, nodes, edges, ranker,
                   lexical_results, semantic_results, context_results>>

\* graph_context.expand_related(base_results, depth=2)
QueryExpandRelated ==
    /\ \E n \in 0..Len(doc_metadata) :
          /\ request' = [base_results |-> FirstDocuments(n)]
          /\ index' = ExpandRelatedOn(index, Take(FirstDocuments(n), ExpandLimit), {})
          /\ outcome' = [op |-> "expand_related", raised |-> FALSE,
                         results |-> expand_related(TRUE, FirstDocuments(n),
                                                    Tracked(index))]
    /\ pc' = "done"
    /\ UNCHANGED <<doc_metadata, adapter, base, nodes, edges, ranker,
                   lexical_results, semantic_results, context_results>>

\* ranker.combine_results(lexical_results, semantic_results, [], intent, 1)
QueryCombineResults ==
    /\ \E n \in 0..Len(doc_metadata), m \in 0..Len(doc_metadata), intent \in Intents :
          \E c \in combine_results(ranker, FirstDocuments(n), FirstDocuments(m), <<>>,
                                   intent, 1) :
              /\ request' = [lexical_results |-> FirstDocuments(n),
                             semantic_results |-> FirstDocuments(m),
                             intent |-> intent, top_k |-> 1]
              /\ doc_metadata' = WriteScores(doc_metadata, c.results)
              /\ outcome' = c
    /\ pc' = "done"
    /\ UNCHANGED <<index, adapter, base, nodes, edges, ranker, lexical_results,
                   semantic_results, context_results>>

NextFrame ==
    \/ QueryFindRelated
    \/ QueryContextualSearch
    \/ QueryBuildFlowGraph
    \/ QueryExpandRelated
    \/ QueryCombineResults

SpecFrame == InitFrame /\ [][NextFrame]_vars

\* C23: the indexed entities are immutable under queries: whatever
\* find_related, contextual_search, expand_related, combine_results and
\* build_flow_graph are called, in any order, every entity of
\* semantic_index_data and every metadata dict of the pipeline keeps exactly
\* its fields and values; tags, depth marks and scores go to copies.
C23_QueriesLeaveEntities ==
    [][index' = index /\ doc_metadata' = doc_metadata]_vars

\* a contextual search that marked a record of the second hop with depth 2,
\* a record made from an entity of the index
C23_Witness ==
    /\ pc = "done"
    /\ outcome.op = "contextual_search"
    /\ \E k \in 1..Len(outcome.results) :
          \E j \in 1..Len(outcome.results[k].related) :
              LET r == outcome.results[k].related[j]
              IN  /\ Get(r, "depth", 0) = 2
                  /\ r.origin \in 1..Len(index)
                  /\ "depth" \notin DOMAIN index[r.origin]

====
